---- MODULE Spec2Model ----
(***************************************************************************)
(* Model of the paddypress-admin master-data console: the cascading        *)
(* State > District > Mandal > Village filter bars of the list pages, the  *)
(* create/edit entity dialogs (react-hook-form state, React effects) and   *)
(* the page-level mutations with their list-query invalidation.            *)
(*                                                                         *)
(* One page or one dialog is mounted at a time; `scope` says which part of *)
(* the console a behaviour exercises.  Every user event is one action that *)
(* includes the re-render and the effects the event triggers; responses of *)
(* the remote API are separate actions.                                    *)
(***************************************************************************)
EXTENDS Integers, Sequences, FiniteSets, TLC

VARIABLES
    scope,       \* "filter" | "dialog" | "page" | "mut" | "view": the part under study
    page,        \* the mounted list page
    filters,     \* the page's filter selections
    qs,          \* status of each option query for its current key
    newFetches,  \* option fetches issued by the last step: {<<query, param>>}
    kind,        \* the dialog component under study
    mode,        \* "create" | "edit": which instance of the dialog
    open,        \* the dialog's open prop
    editing,     \* the page's editing row (NoRow: none)
    form,        \* react-hook-form control state and the dialog's refs
    saving,      \* the mutation behind the dialog is pending
    lq,          \* the list query of the current filters, by search parameter
    search,      \* the text of the search box
    debouncedSearch, \* the value useDebounce returns
    timer,       \* useDebounce has a timeout pending
    urlTab,      \* the tab parameter of the IKP master page's URL, as characters
    oc,          \* the query cache's option queries, by query name and key
    pg,          \* a paginated Locations page: its page number and list query
    pin,         \* a pincode cell of the Locations Villages table and its village
    cache,       \* the query cache's list queries, by query key
    epoch,       \* how many mutation requests have succeeded so far
    isAdmin,     \* user?.role === "ADMIN" (read by the Locations pages only)
    deactivateTarget, \* the row of the deactivate confirmation (NoRow: none)
    deleteTarget,     \* the row of the delete confirmation (NoRow: none)
    bulkOpen,    \* the bulk-upload dialog's open flag
    inflight,    \* the update/deactivate/delete/bulk/pincode requests in flight
    toasts,      \* the showToast calls of the last step
    lastEv       \* the last event handled, as far as a property speaks of it

-----------------------------------------------------------------------------
(* The master data held by the remote API.                                 *)

StateIds == {"s1", "s2"}
DistrictIds == {"d1", "d2", "d3"}
MandalIds == {"m1", "m2", "m3"}
VillageIds == {"v1", "v2", "v3"}

\* District.stateId
stateOf == [d \in DistrictIds |-> IF d = "d3" THEN "s2" ELSE "s1"]
\* Mandal.districtId
districtOf == [m \in MandalIds |-> IF m = "m3" THEN "d3" ELSE "d1"]
\* Village.mandalId
mandalOf == [v \in VillageIds |-> IF v = "v3" THEN "m3" ELSE "m1"]

\* JavaScript null, as a Select may hand it to onValueChange
Null == "<null>"
\* A string of white space only
Blank == " "
\* A text with white space around a name
Padded == " x "

\* v ?? ""
NullishToEmpty(v) == IF v = Null THEN "" ELSE v
\* JavaScript truthiness of a string-or-null
Truthy(v) == v # Null /\ v # ""
\* String.prototype.trim, on the strings of the model
Trim(s) == IF s = Blank THEN "" ELSE IF s = Padded THEN "x" ELSE s
\* Boolean(x && x.trim())
NonBlank(x) == Truthy(x) /\ Truthy(Trim(x))

-----------------------------------------------------------------------------
(* List pages and their filter chains.                                     *)

Pages == {"IkpDistricts", "IkpMandals", "IkpVillages", "IkpCenters",
          "LocMandals", "LocVillages"}
IkpPages == {"IkpDistricts", "IkpMandals", "IkpVillages", "IkpCenters"}
LocPages == {"LocMandals", "LocVillages"}

Levels == {"stateId", "districtId", "mandalId", "villageId"}
QNames == {"states", "districts", "mandals", "villages"}

NoFilters == [stateId |-> "", districtId |-> "", mandalId |-> "", villageId |-> ""]

\* The filter levels a page has, top down
Chain(p) ==
    CASE p = "IkpCenters" -> <<"stateId", "districtId", "mandalId", "villageId">>
      [] p = "IkpVillages" -> <<"stateId", "districtId", "mandalId">>
      [] p = "LocVillages" -> <<"stateId", "districtId", "mandalId">>
      [] p = "IkpMandals" -> <<"stateId", "districtId">>
      [] p = "LocMandals" -> <<"stateId", "districtId">>
      [] OTHER -> <<"stateId">>

InChain(p, lvl) == \E i \in 1..Len(Chain(p)) : Chain(p)[i] = lvl
\* The levels of the chain strictly below lvl
Below(p, lvl) ==
    {Chain(p)[j] : j \in {k \in 1..Len(Chain(p)) :
                            \E i \in 1..Len(Chain(p)) : Chain(p)[i] = lvl /\ k > i}}
\* The level directly above lvl ("" for the top)
ParentLevel(lvl) ==
    CASE lvl = "districtId" -> "stateId"
      [] lvl = "mandalId" -> "districtId"
      [] lvl = "villageId" -> "mandalId"
      [] OTHER -> ""
\* The option query that feeds a level's selector
QueryOf(lvl) ==
    CASE lvl = "stateId" -> "states"
      [] lvl = "districtId" -> "districts"
      [] lvl = "mandalId" -> "mandals"
      [] OTHER -> "villages"
LevelOf(qn) ==
    CASE qn = "states" -> "stateId"
      [] qn = "districts" -> "districtId"
      [] qn = "mandals" -> "mandalId"
      [] OTHER -> "villageId"

\* All rows of a level, and the parent reference of a row
RowsOf(lvl) ==
    CASE lvl = "stateId" -> StateIds
      [] lvl = "districtId" -> DistrictIds
      [] lvl = "mandalId" -> MandalIds
      [] OTHER -> VillageIds
ParentOf(lvl, id) ==
    CASE lvl = "districtId" -> stateOf[id]
      [] lvl = "mandalId" -> districtOf[id]
      [] lvl = "villageId" -> mandalOf[id]
      [] OTHER -> ""

-----------------------------------------------------------------------------
(* Filter handlers, one per onValueChange of a filter selector.            *)

IkpCenters_onState(f, v) ==
    [f EXCEPT !.stateId = NullishToEmpty(v), !.districtId = "",
              !.mandalId = "", !.villageId = ""]
\* A District handler that forgets the Village filter
IkpCenters_onDistrict_keepVillage(f, v) ==
    [f EXCEPT !.districtId = NullishToEmpty(v), !.mandalId = ""]
IkpCenters_onDistrict(f, v) ==
    [f EXCEPT !.districtId = NullishToEmpty(v), !.mandalId = "", !.villageId = ""]
IkpCenters_onMandal(f, v) ==
    [f EXCEPT !.mandalId = NullishToEmpty(v), !.villageId = ""]
IkpCenters_onVillage(f, v) ==
    [f EXCEPT !.villageId = NullishToEmpty(v)]

IkpVillages_onState(f, v) ==
    [f EXCEPT !.stateId = NullishToEmpty(v), !.districtId = "", !.mandalId = ""]
IkpVillages_onDistrict(f, v) ==
    [f EXCEPT !.districtId = NullishToEmpty(v), !.mandalId = ""]
IkpVillages_onMandal(f, v) ==
    [f EXCEPT !.mandalId = NullishToEmpty(v)]

\* v ? (v === current ? "" : v) : ""
ToggleSelect(cur, v) == IF Truthy(v) THEN (IF v = cur THEN "" ELSE v) ELSE ""

IkpMandals_onState(f, v) ==
    [f EXCEPT !.stateId = ToggleSelect(f.stateId, v), !.districtId = ""]
IkpMandals_onDistrict(f, v) ==
    [f EXCEPT !.districtId = ToggleSelect(f.districtId, v)]

IkpDistricts_onState(f, v) ==
    [f EXCEPT !.stateId = ToggleSelect(f.stateId, v)]

\* A State handler that ignores a deselect
LocMandals_onState_keepsOnEmpty(f, v) ==
    IF v = "" THEN f ELSE [f EXCEPT !.stateId = v, !.districtId = ""]
LocMandals_onState(f, v) == [f EXCEPT !.stateId = v, !.districtId = ""]
LocMandals_onDistrict(f, v) == [f EXCEPT !.districtId = v]

LocVillages_onState(f, v) ==
    [f EXCEPT !.stateId = v, !.districtId = "", !.mandalId = ""]
LocVillages_onDistrict(f, v) == [f EXCEPT !.districtId = v, !.mandalId = ""]
LocVillages_onMandal(f, v) == [f EXCEPT !.mandalId = v]

OnFilterChange(p, lvl, f, v) ==
    CASE p = "IkpCenters" /\ lvl = "stateId" -> IkpCenters_onState(f, v)
      [] p = "IkpCenters" /\ lvl = "districtId" -> IkpCenters_onDistrict(f, v)
      [] p = "IkpCenters" /\ lvl = "mandalId" -> IkpCenters_onMandal(f, v)
      [] p = "IkpCenters" /\ lvl = "villageId" -> IkpCenters_onVillage(f, v)
      [] p = "IkpVillages" /\ lvl = "stateId" -> IkpVillages_onState(f, v)
      [] p = "IkpVillages" /\ lvl = "districtId" -> IkpVillages_onDistrict(f, v)
      [] p = "IkpVillages" /\ lvl = "mandalId" -> IkpVillages_onMandal(f, v)
      [] p = "IkpMandals" /\ lvl = "stateId" -> IkpMandals_onState(f, v)
      [] p = "IkpMandals" /\ lvl = "districtId" -> IkpMandals_onDistrict(f, v)
      [] p = "IkpDistricts" /\ lvl = "stateId" -> IkpDistricts_onState(f, v)
      [] p = "LocMandals" /\ lvl = "stateId" -> LocMandals_onState(f, v)
      [] p = "LocMandals" /\ lvl = "districtId" -> LocMandals_onDistrict(f, v)
      [] p = "LocVillages" /\ lvl = "stateId" -> LocVillages_onState(f, v)
      [] p = "LocVillages" /\ lvl = "districtId" -> LocVillages_onDistrict(f, v)
      [] p = "LocVillages" /\ lvl = "mandalId" -> LocVillages_onMandal(f, v)
      [] OTHER -> f

-----------------------------------------------------------------------------
(* Option queries of the list pages (useQuery), for the key they hold now. *)

\* No value: x || undefined
Undefined == "<undefined>"
OrUndefined(x) == IF Truthy(x) THEN x ELSE Undefined

Idle == [q \in QNames |-> "idle"]

QueryExists(p, qn) ==
    CASE p \in {"IkpCenters", "IkpCenterDialog", "IkpCentersPreloaded"} -> TRUE
      [] p = "IkpVillages" -> qn \in {"states", "districts", "mandals"}
      [] p = "LocVillages" -> qn \in {"states", "districts", "mandals"}
      [] p = "IkpMandals" -> qn \in {"states", "districts"}
      [] p = "LocMandals" -> qn \in {"states", "districts"}
      [] OTHER -> qn = "states"

\* The same queries keyed by name alone, without the parent id
QueryKey_noParent(p, qn, f) == ""

\* The part of a query key that follows the filters
QueryKey(p, qn, f) ==
    CASE p \in {"IkpCenters", "IkpCenterDialog", "IkpVillages", "IkpMandals"}
           /\ qn = "districts" -> f.stateId
      [] p \in {"IkpCenters", "IkpCenterDialog", "IkpVillages"}
           /\ qn = "mandals" -> f.districtId
      [] p \in {"IkpCenters", "IkpCenterDialog"} /\ qn = "villages" -> f.mandalId
      [] OTHER -> ""

\* The parent id the queryFn hands to the API
QueryParam(p, qn, f) ==
    CASE p \in {"IkpCenters", "IkpCenterDialog"} /\ qn = "districts" -> f.stateId
      [] p \in {"IkpCenters", "IkpCenterDialog"} /\ qn = "mandals" -> f.districtId
      [] p \in {"IkpCenters", "IkpCenterDialog"} /\ qn = "villages" -> f.mandalId
      [] p = "IkpVillages" /\ qn = "districts" -> OrUndefined(f.stateId)
      [] p = "IkpVillages" /\ qn = "mandals" -> OrUndefined(f.districtId)
      [] p = "IkpMandals" /\ qn = "districts" -> OrUndefined(f.stateId)
      [] OTHER -> Undefined

\* Option queries that run whatever the parent filter
IkpCenters_enabled_always(qn, f) == TRUE
IkpCenters_enabled(qn, f) ==
    CASE qn = "districts" -> NonBlank(f.stateId)
      [] qn = "mandals" -> NonBlank(f.districtId)
      [] qn = "villages" -> NonBlank(f.mandalId)
      [] OTHER -> TRUE
\* The option queries inside the server-filtered IKP center dialog
IkpCenterDialog_enabled(qn, f) ==
    CASE qn = "districts" -> NonBlank(f.stateId)
      [] qn = "mandals" -> NonBlank(f.districtId)
      [] qn = "villages" -> NonBlank(f.mandalId)
      [] OTHER -> TRUE
IkpVillages_enabled(qn, f, s) ==
    CASE qn = "districts" -> NonBlank(f.stateId) /\ s["states"] = "success"
      [] qn = "mandals" -> NonBlank(f.districtId) /\ s["districts"] = "success"
      [] OTHER -> TRUE
IkpMandals_enabled(qn, f, s) ==
    CASE qn = "districts" -> s["states"] = "success"
      [] OTHER -> TRUE

QueryEnabled(p, qn, f, s) ==
    /\ QueryExists(p, qn)
    /\ CASE p = "IkpCenters" -> IkpCenters_enabled(qn, f)
         [] p = "IkpCenterDialog" -> IkpCenterDialog_enabled(qn, f)
         [] p = "IkpVillages" -> IkpVillages_enabled(qn, f, s)
         [] p = "IkpMandals" -> IkpMandals_enabled(qn, f, s)
         [] OTHER -> TRUE

\* The rows a list endpoint returns for a parent filter (none given: all rows)
ApiList(lvl, param) ==
    IF param \in {"", Undefined} THEN RowsOf(lvl)
    ELSE {r \in RowsOf(lvl) : ParentOf(lvl, r) = param}

\* query.data?.data.items ?? []
QueryItems(p, qn, f, s) ==
    IF s[qn] = "success" THEN ApiList(LevelOf(qn), QueryParam(p, qn, f)) ELSE {}

\* A query observer after a render: a new key has no data; an enabled query
\* without data fetches.
QueryStatus(p, qn, fOld, fNew, s) ==
    LET base == IF QueryKey(p, qn, fOld) # QueryKey(p, qn, fNew) THEN "idle" ELSE s[qn]
    IN IF QueryEnabled(p, qn, fNew, s) /\ base = "idle" THEN "loading" ELSE base

Refresh(p, fOld, fNew, s) ==
    LET s1 == [s EXCEPT !["states"] = QueryStatus(p, "states", fOld, fNew, s)]
        s2 == [s1 EXCEPT !["districts"] = QueryStatus(p, "districts", fOld, fNew, s1)]
        s3 == [s2 EXCEPT !["mandals"] = QueryStatus(p, "mandals", fOld, fNew, s2)]
    IN [s3 EXCEPT !["villages"] = QueryStatus(p, "villages", fOld, fNew, s3)]

\* The fetches a render starts
Issued(p, fOld, fNew, sOld, sNew) ==
    {<<qn, QueryParam(p, qn, fNew)>> : qn \in
        {q \in QNames : sNew[q] = "loading"
                        /\ (sOld[q] # "loading" \/ QueryKey(p, q, fOld) # QueryKey(p, q, fNew))}}

-----------------------------------------------------------------------------
(* What the filter bar renders.                                            *)

\* Filter selectors that are never disabled
FilterDisabled_never(p, lvl, f) == FALSE
\* The disabled prop of a filter selector
FilterDisabled(p, lvl, f) ==
    CASE p \in {"IkpCenters", "IkpVillages", "LocMandals", "LocVillages"}
           /\ lvl = "districtId" -> ~Truthy(f.stateId)
      [] p \in {"IkpCenters", "IkpVillages", "LocVillages"}
           /\ lvl = "mandalId" -> ~Truthy(f.districtId)
      [] p = "IkpCenters" /\ lvl = "villageId" -> ~Truthy(f.mandalId)
      [] OTHER -> FALSE

\* stateFilter ? districts.filter(x => x.stateId === stateFilter) : districts
LocFilterGroup(lvl, parentSel, loaded) ==
    IF Truthy(parentSel) THEN {x \in loaded : ParentOf(lvl, x) = parentSel} ELSE loaded

\* The options a filter selector offers
FilterOptions(p, lvl, f, s) ==
    IF p \in LocPages /\ lvl # "stateId"
    THEN LocFilterGroup(lvl, f[ParentLevel(lvl)], QueryItems(p, QueryOf(lvl), f, s))
    ELSE QueryItems(p, QueryOf(lvl), f, s)

\* GroupedCombobox: picking the value it holds deselects
GroupedComboboxEmit(cur, picked) == IF picked = cur THEN "" ELSE picked

\* The entries the user can choose in a filter selector (Null: the Select
\* of an IKP page is cleared)
FilterPicks(p, lvl, f, s) ==
    IF p \in LocPages THEN FilterOptions(p, lvl, f, s)
    ELSE FilterOptions(p, lvl, f, s) \cup {Null}

\* The value the selector hands to onValueChange for a chosen entry
FilterEmit(p, cur, x) == IF p \in LocPages THEN GroupedComboboxEmit(cur, x) ELSE x

\* The values a filter selector can hand to its onValueChange
FilterEmits(p, lvl, f, s) ==
    {FilterEmit(p, f[lvl], x) : x \in FilterPicks(p, lvl, f, s)}


-----------------------------------------------------------------------------
(* Entity dialogs: schemas, rows and the values a page hands to a dialog.  *)

Kinds == {"IkpDistrict", "IkpMandal", "IkpVillage", "IkpCenterSrv", "IkpCenterCli",
          "LocMandal", "LocVillage", "BulkMandals", "BulkVillages"}
\* Dialogs built on react-hook-form
FormKinds == Kinds \ {"BulkMandals", "BulkVillages"}
\* Dialogs whose schema caps the name at MaxNameLen
CappedKinds == {"IkpDistrict", "IkpMandal", "IkpVillage"}
CenterKinds == {"IkpCenterSrv", "IkpCenterCli"}
\* Dialogs fed by collections the page preloaded
ClientKinds == {"IkpCenterCli", "LocMandal", "LocVillage", "BulkMandals", "BulkVillages"}

\* .max(100, ...)
MaxNameLen == 100

\* Names a user can type, by length
Names == {"", "a", "L100", "L101"}
NameLen(n) ==
    CASE n = "" -> 0
      [] n = "a" -> 1
      [] n = "L100" -> 100
      [] OTHER -> 101
\* Names tried in a dialog: the long ones where the schema caps the length
NamesOf(k) == IF k \in CappedKinds THEN Names ELSE {"", "a", "L100"}
NoteTexts == {"", "n"}
ItemTexts == {"", Blank, "x", Padded}

\* The id fields a dialog has, top down
IdFields(k) ==
    CASE k \in CenterKinds -> <<"stateId", "districtId", "mandalId", "villageId">>
      [] k \in {"LocVillage", "BulkVillages"} -> <<"stateId", "districtId", "mandalId">>
      [] k \in {"LocMandal", "BulkMandals"} -> <<"stateId", "districtId">>
      [] k = "IkpDistrict" -> <<"stateId">>
      [] k = "IkpMandal" -> <<"districtId">>
      [] OTHER -> <<"mandalId">>
HasField(k, lvl) == \E i \in 1..Len(IdFields(k)) : IdFields(k)[i] = lvl
\* The id fields of the dialog strictly below lvl
FieldsBelow(k, lvl) ==
    {IdFields(k)[j] : j \in {n \in 1..Len(IdFields(k)) :
                               \E i \in 1..Len(IdFields(k)) : IdFields(k)[i] = lvl /\ n > i}}

\* z.string().min(1)
MinOne(v) == v # Null /\ v # Undefined /\ v # ""

\* The zod schema of a dialog, on the form values
Valid(k, v) ==
    /\ \A lvl \in Levels : HasField(k, lvl) => MinOne(v[lvl])
    /\ NameLen(v.name) >= 1
    /\ k \in CappedKinds => NameLen(v.name) <= MaxNameLen

\* Rows the list shows, each with its ancestry
Rows ==
    { [id |-> "r1", stateId |-> "s1", districtId |-> "d1", mandalId |-> "m1",
       villageId |-> "v1", name |-> "a", notes |-> "n", isActive |-> TRUE],
      [id |-> "r2", stateId |-> "s2", districtId |-> "d3", mandalId |-> "m3",
       villageId |-> "v3", name |-> "L100", notes |-> Null, isActive |-> FALSE] }

\* editing === null
NoRow ==
    [id |-> Null, stateId |-> Null, districtId |-> Null, mandalId |-> Null,
     villageId |-> Null, name |-> Null, notes |-> Null, isActive |-> Null]

EmptyValues ==
    [stateId |-> "", districtId |-> "", mandalId |-> "", villageId |-> "",
     name |-> "", notes |-> "", isActive |-> TRUE, items |-> ""]

\* The page that owns a dialog
OwnerPage(k) ==
    CASE k = "IkpDistrict" -> "IkpDistricts"
      [] k = "IkpMandal" -> "IkpMandals"
      [] k = "IkpVillage" -> "IkpVillages"
      [] k = "IkpCenterSrv" -> "IkpCenters"
      [] k = "IkpCenterCli" -> "IkpCentersPreloaded"
      [] k \in {"LocMandal", "BulkMandals"} -> "LocMandals"
      [] OTHER -> "LocVillages"

\* districts.find(d => d.id === id)?.stateId || ""
FindParent(lvl, id, loaded) == IF id \in loaded THEN ParentOf(lvl, id) ELSE ""

\* The initialValues prop of the create dialog
CreateValues(k, f) ==
    CASE k = "IkpDistrict" -> [EmptyValues EXCEPT !.stateId = f.stateId]
      [] k = "IkpMandal" -> [EmptyValues EXCEPT !.districtId = f.districtId]
      [] k = "IkpVillage" -> [EmptyValues EXCEPT !.mandalId = f.mandalId]
      [] OTHER -> EmptyValues

\* The initialValues prop of the edit dialog; r is the page's editing row
EditValues(k, r, districts, mandals) ==
    IF r.id = Null THEN EmptyValues
    ELSE LET base == [EmptyValues EXCEPT !.name = r.name, !.isActive = r.isActive]
         IN CASE k = "IkpDistrict" -> [base EXCEPT !.stateId = r.stateId]
              [] k = "IkpMandal" -> [base EXCEPT !.districtId = r.districtId]
              [] k = "IkpVillage" -> [base EXCEPT !.mandalId = r.mandalId]
              [] k = "LocMandal" ->
                   [base EXCEPT !.stateId = FindParent("districtId", r.districtId, districts),
                                !.districtId = r.districtId]
              [] k = "LocVillage" ->
                   [base EXCEPT !.stateId = FindParent("districtId",
                                     FindParent("mandalId", r.mandalId, mandals), districts),
                                !.districtId = FindParent("mandalId", r.mandalId, mandals),
                                !.mandalId = r.mandalId]
              [] OTHER ->
                   [base EXCEPT !.stateId = r.stateId, !.districtId = r.districtId,
                                !.mandalId = r.mandalId, !.villageId = r.villageId,
                                !.notes = NullishToEmpty(r.notes)]

-----------------------------------------------------------------------------
(* react-hook-form, on a control c = [values, defaultValues, isValid,      *)
(* isDirty, prevStateIdRef, prevDistrictIdRef, prevMandalIdRef].           *)

\* field.onChange(v): the value, then formState from the values as they are
FieldOnChange(k, c, name, v) ==
    LET vals == [c.values EXCEPT ![name] = v]
    IN [c EXCEPT !.values = vals,
                 !.isDirty = (vals # c.defaultValues),
                 !.isValid = Valid(k, vals)]

\* setValue(name, v): the value alone
SetValue(c, name, v) == [c EXCEPT !.values[name] = v]

\* setValue(name, v, { shouldValidate: true, shouldDirty: true })
SetValueValidateDirty(k, c, name, v) == FieldOnChange(k, c, name, v)

\* reset(values): values and defaults replaced, formState recomputed
FormReset(k, c, iv) ==
    [c EXCEPT !.values = iv, !.defaultValues = iv,
              !.isDirty = FALSE, !.isValid = Valid(k, iv)]

\* useForm({ defaultValues }) and useRef() at mount
FormMount(k, iv) ==
    [values |-> iv, defaultValues |-> iv, isValid |-> Valid(k, iv), isDirty |-> FALSE,
     prevStateIdRef |-> Undefined, prevDistrictIdRef |-> Undefined,
     prevMandalIdRef |-> Undefined]

-----------------------------------------------------------------------------
(* What a dialog renders.                                                  *)

\* The page (or dialog) whose useQuery calls feed the dialog's selectors,
\* and the selections those queries are keyed by
QueryHost(k) == IF k = "IkpCenterSrv" THEN "IkpCenterDialog" ELSE OwnerPage(k)
QuerySelections(k, f, vals) ==
    IF k = "IkpCenterSrv"
    THEN [lvl \in Levels |-> vals[lvl]]
    ELSE f

\* A filter that offers everything while no parent is selected
Filtered_allWithoutParent(lvl, parentSel, loaded) ==
    IF ~Truthy(parentSel) THEN loaded ELSE {x \in loaded : ParentOf(lvl, x) = parentSel}
\* if (!selectedStateId) return []; return districts.filter(...)
Filtered(lvl, parentSel, loaded) ==
    IF ~Truthy(parentSel) THEN {} ELSE {x \in loaded : ParentOf(lvl, x) = parentSel}

\* The options the selector of an id field offers
DialogOptions(k, lvl, vals, f, s) ==
    LET loaded == QueryItems(QueryHost(k), QueryOf(lvl), QuerySelections(k, f, vals), s)
    IN IF k \in ClientKinds /\ lvl # "stateId"
       THEN Filtered(lvl, vals[ParentLevel(lvl)], loaded)
       ELSE loaded

\* Dialogs that never lock their ancestor selector
Locked_never(k, m, f) == FALSE
\* disableState / disableDistrict / disableMandal
Locked(k, m, f) ==
    CASE k \in {"IkpDistrict", "IkpMandal"} -> m = "edit"
      [] k = "IkpVillage" -> m = "edit" \/ Truthy(f.mandalId)
      [] OTHER -> FALSE

\* The disabled prop of the selector of an id field
DialogDisabled(k, m, lvl, vals, f, s) ==
    CASE k \in CappedKinds -> Locked(k, m, f)
      [] k = "IkpCenterCli" ->
           \/ (lvl # "stateId" /\ ~Truthy(vals[ParentLevel(lvl)]))
           \/ s[QueryOf(lvl)] = "loading"
      [] OTHER -> lvl # "stateId" /\ ~Truthy(vals[ParentLevel(lvl)])

\* The values the selector of an id field can hand to its onValueChange
DialogEmits(k, lvl, vals, f, s) ==
    IF k \in ClientKinds
    THEN {GroupedComboboxEmit(vals[lvl], x) : x \in DialogOptions(k, lvl, vals, f, s)}
    ELSE DialogOptions(k, lvl, vals, f, s) \cup {Null}

\* An Upload button that does not look at the text
SaveDisabled_ignoresItems(k, m, c, isSaving, f) ==
    CASE k = "BulkMandals" -> ~Truthy(c.values.districtId) \/ isSaving
      [] k = "BulkVillages" -> ~Truthy(c.values.mandalId) \/ isSaving
      [] OTHER -> isSaving \/ ~c.isValid \/ ~c.isDirty
\* A Save button that does not look at isDirty
SaveDisabled_ignoresDirty(k, m, c, isSaving, f) == isSaving \/ ~c.isValid
\* The disabled prop of the Save (Upload) button
SaveDisabled(k, m, c, isSaving, f) ==
    CASE k = "BulkMandals" ->
           ~Truthy(c.values.districtId) \/ ~Truthy(Trim(c.values.items)) \/ isSaving
      [] k = "BulkVillages" ->
           ~Truthy(c.values.mandalId) \/ ~Truthy(Trim(c.values.items)) \/ isSaving
      [] k \in CappedKinds ->
           isSaving \/ ~c.isValid \/ (IF Locked(k, m, f) THEN ~c.isDirty ELSE FALSE)
      [] k \in CenterKinds ->
           isSaving \/ ~c.isValid \/ (IF m = "edit" THEN ~c.isDirty ELSE FALSE)
      [] OTHER -> isSaving \/ ~c.isValid

\* The request onSave (onUpload) hands to the mutation; Undefined: not sent
NoRequest ==
    [id |-> Undefined, stateId |-> Undefined, districtId |-> Undefined,
     mandalId |-> Undefined, villageId |-> Undefined, name |-> Undefined,
     notes |-> Undefined, isActive |-> Undefined, items |-> Undefined]
\* An upload that trims the text before sending it
Request_trimmed(k, m, data, r) ==
    IF k = "BulkMandals"
    THEN [NoRequest EXCEPT !.districtId = data.districtId, !.items = Trim(data.items)]
    ELSE [NoRequest EXCEPT !.mandalId = data.mandalId, !.items = Trim(data.items)]
Request(k, m, data, r) ==
    LET rid == IF m = "edit" THEN r.id ELSE Undefined
        base == [NoRequest EXCEPT !.id = rid, !.name = data.name, !.isActive = data.isActive]
    IN CASE k = "IkpDistrict" -> [base EXCEPT !.stateId = data.stateId]
         [] k = "IkpMandal" -> [base EXCEPT !.districtId = data.districtId]
         [] k = "IkpVillage" ->
              IF m = "edit" THEN base ELSE [base EXCEPT !.mandalId = data.mandalId]
         [] k = "IkpCenterSrv" -> [base EXCEPT !.villageId = data.villageId, !.notes = data.notes]
         [] k = "IkpCenterCli" -> [base EXCEPT !.villageId = data.villageId, !.notes = data.notes]
         [] k = "LocMandal" ->
              [base EXCEPT !.stateId = data.stateId, !.districtId = data.districtId]
         [] k = "LocVillage" ->
              [base EXCEPT !.stateId = data.stateId, !.districtId = data.districtId,
                           !.mandalId = data.mandalId]
         [] k = "BulkMandals" -> [NoRequest EXCEPT !.districtId = data.districtId, !.items = data.items]
         [] OTHER -> [NoRequest EXCEPT !.mandalId = data.mandalId, !.items = data.items]

-----------------------------------------------------------------------------
(* Dialog handlers and effects.                                            *)

\* setValue(name, "") for every name of a set
ClearFields(c, names) ==
    [c EXCEPT !.values = [n \in DOMAIN c.values |-> IF n \in names THEN "" ELSE c.values[n]]]

\* Select of the IKP District / Mandal / Village dialogs and of the
\* server-filtered IKP center dialog: field.onChange(v ?? "")
Ikp_onValueChange(k, c, lvl, v) == FieldOnChange(k, c, lvl, NullishToEmpty(v))

\* field.onChange(v); setValue(child, "") ... for the children of the field
IkpCenterCli_onValueChange(c, lvl, v) ==
    ClearFields(FieldOnChange("IkpCenterCli", c, lvl, v), FieldsBelow("IkpCenterCli", lvl))
LocVillage_onValueChange(c, lvl, v) ==
    ClearFields(FieldOnChange("LocVillage", c, lvl, v), FieldsBelow("LocVillage", lvl))
LocMandal_onValueChange(c, lvl, v) ==
    ClearFields(FieldOnChange("LocMandal", c, lvl, v), FieldsBelow("LocMandal", lvl))

\* setStateId(v); setDistrictId(""); ...
BulkMandals_onValueChange(c, lvl, v) ==
    ClearFields([c EXCEPT !.values[lvl] = v], FieldsBelow("BulkMandals", lvl))
BulkVillages_onValueChange(c, lvl, v) ==
    ClearFields([c EXCEPT !.values[lvl] = v], FieldsBelow("BulkVillages", lvl))

OnDialogChange(k, c, lvl, v) ==
    CASE k = "IkpCenterCli" -> IkpCenterCli_onValueChange(c, lvl, v)
      [] k = "LocVillage" -> LocVillage_onValueChange(c, lvl, v)
      [] k = "LocMandal" -> LocMandal_onValueChange(c, lvl, v)
      [] k = "BulkMandals" -> BulkMandals_onValueChange(c, lvl, v)
      [] k = "BulkVillages" -> BulkVillages_onValueChange(c, lvl, v)
      [] OTHER -> Ikp_onValueChange(k, c, lvl, v)

\* useEffect(() => { if (props.open) reset(props.initialValues) ... })
ResetEffect(k, c, isOpen, iv) ==
    IF ~isOpen THEN c
    ELSE IF k = "IkpCenterSrv"
         THEN [FormReset(k, c, iv) EXCEPT !.prevStateIdRef = iv.stateId,
                                          !.prevDistrictIdRef = iv.districtId]
         ELSE FormReset(k, c, iv)

\* setValue(name, "", { shouldValidate: true, shouldDirty: true }) in turn
ClearValidateDirty(c, names) ==
    LET vals == ClearFields(c, names).values
    IN IF names = {} THEN c
       ELSE [c EXCEPT !.values = vals,
                      !.isDirty = (vals # c.defaultValues),
                      !.isValid = Valid("IkpCenterSrv", vals)]

\* The three cascade effects of the server-filtered IKP center dialog; the
\* watched value is the one the render captured.
\* A state effect that only records the watched value
StateEffect_noCascade(c, isOpen, stateIdValue) ==
    IF ~isOpen THEN c ELSE [c EXCEPT !.prevStateIdRef = stateIdValue]
StateEffect(c, isOpen, stateIdValue) ==
    IF ~isOpen THEN c
    ELSE [(IF c.prevStateIdRef # Undefined /\ c.prevStateIdRef # stateIdValue
           THEN ClearValidateDirty(c, {"districtId", "mandalId", "villageId"})
           ELSE c) EXCEPT !.prevStateIdRef = stateIdValue]
DistrictEffect(c, isOpen, districtIdValue) ==
    IF ~isOpen THEN c
    ELSE [(IF c.prevDistrictIdRef # Undefined /\ c.prevDistrictIdRef # districtIdValue
           THEN ClearValidateDirty(c, {"mandalId", "villageId"})
           ELSE c) EXCEPT !.prevDistrictIdRef = districtIdValue]
MandalEffect(c, isOpen, mandalIdValue) ==
    IF ~isOpen THEN c
    ELSE [(IF c.prevMandalIdRef # Undefined /\ c.prevMandalIdRef # mandalIdValue
           THEN ClearValidateDirty(c, {"villageId"})
           ELSE c) EXCEPT !.prevMandalIdRef = mandalIdValue]

\* watch("stateId"), watch("districtId"), watch("mandalId") of a render
Watched(c) ==
    [stateId |-> c.values.stateId, districtId |-> c.values.districtId,
     mandalId |-> c.values.mandalId]

\* The effects of one commit, in declaration order, each run only if one of
\* its dependencies differs from the previous render's
RenderEffects(k, c, isOpen, iv, openChanged, ivChanged, prevW, w) ==
    LET c1 == IF openChanged \/ ivChanged THEN ResetEffect(k, c, isOpen, iv) ELSE c
        c2 == IF openChanged \/ prevW.stateId # w.stateId
              THEN StateEffect(c1, isOpen, w.stateId) ELSE c1
        c3 == IF openChanged \/ prevW.districtId # w.districtId
              THEN DistrictEffect(c2, isOpen, w.districtId) ELSE c2
        c4 == IF openChanged \/ prevW.mandalId # w.mandalId
              THEN MandalEffect(c3, isOpen, w.mandalId) ELSE c3
    IN IF k = "IkpCenterSrv" THEN c4 ELSE c1

\* Render and run effects until a render changes nothing
RECURSIVE Settle(_, _, _, _, _, _, _)
Settle(k, c, isOpen, iv, openChanged, ivChanged, prevW) ==
    LET w == Watched(c)
        c2 == RenderEffects(k, c, isOpen, iv, openChanged, ivChanged, prevW, w)
    IN IF Watched(c2) = w THEN c2
       ELSE Settle(k, c2, isOpen, iv, FALSE, FALSE, w)

-----------------------------------------------------------------------------
(* The list page's filter bar.                                             *)

\* The texts typed into the search box
SearchTexts == {"", "a", "ab"}
\* A page whose search box is empty and whose list query is not observed
NoSearch ==
    /\ lq = [t \in SearchTexts |-> "idle"]
    /\ search = "" /\ debouncedSearch = "" /\ timer = FALSE

filterVars == <<page, filters, qs, newFetches>>
dialogVars == <<kind, mode, open, editing, form, saving>>
listVars == <<cache, epoch>>
mutVars == <<isAdmin, deactivateTarget, deleteTarget, bulkOpen, inflight, toasts>>
viewVars == <<lq, search, debouncedSearch, timer>>
tabVars == <<urlTab>>
optVars == <<oc>>
pagerVars == <<pg>>
pinVars == <<pin>>
auxVars == <<tabVars, optVars, pagerVars, pinVars>>

\* A page on its first page with no list data
NoPager == [no |-> 1, key |-> <<>>, has |-> FALSE]
\* No pincode cell is mounted
NoPin == [mounted |-> FALSE]

\* The keys of the option queries: [name, parent id]
OptKeys == QNames \X ({""} \cup StateIds \cup DistrictIds \cup MandalIds)
\* An option query nobody has observed yet
NoOption == [has |-> FALSE, items |-> {}, fetching |-> FALSE, param |-> ""]
\* No IKP master page is mounted and no option query is cached
NoAux ==
    /\ urlTab = <<Null>>
    /\ oc = [k \in OptKeys |-> NoOption]
    /\ pg = NoPager
    /\ pin = NoPin
vars == <<scope, page, filters, qs, newFetches, kind, mode, open, editing, form, saving,
          lq, search, debouncedSearch, timer, urlTab, oc, pg, pin,
          cache, epoch, isAdmin, deactivateTarget, deleteTarget, bulkOpen, inflight,
          toasts, lastEv>>

InitFilter ==
    /\ scope = "filter"
    /\ page \in Pages
    /\ filters = NoFilters
    /\ qs = Refresh(page, NoFilters, NoFilters, Idle)
    /\ newFetches = Issued(page, NoFilters, NoFilters, Idle, qs)
    /\ kind = "none" /\ mode = "none" /\ open = FALSE /\ editing = NoRow
    /\ form = FormMount("none", EmptyValues) /\ saving = FALSE
    /\ cache = <<>> /\ epoch = 0
    /\ isAdmin = FALSE /\ deactivateTarget = NoRow /\ deleteTarget = NoRow
    /\ bulkOpen = FALSE /\ inflight = {} /\ toasts = {}
    /\ NoAux
    /\ NoSearch
    /\ lastEv = [ev |-> "mount"]

\* The user picks a value in the filter selector of a level
FilterChange ==
    /\ scope = "filter"
    /\ \E lvl \in Levels :
         /\ InChain(page, lvl)
         /\ ~FilterDisabled(page, lvl, filters)
         /\ \E x \in FilterPicks(page, lvl, filters, qs) :
              LET v == FilterEmit(page, filters[lvl], x)
                  f2 == OnFilterChange(page, lvl, filters, v)
                  s2 == Refresh(page, filters, f2, qs)
              IN /\ filters' = f2
                 /\ qs' = s2
                 /\ newFetches' = Issued(page, filters, f2, qs, s2)
                 /\ lastEv' = [ev |-> "filterChange", level |-> lvl, picked |-> x,
                               hadBelow |-> \E b \in Below(page, lvl) : filters[b] # ""]
    /\ UNCHANGED <<listVars, mutVars, scope, auxVars, viewVars, page, dialogVars>>

\* An option query's fetch succeeds
QueryResponse ==
    /\ scope = "filter"
    /\ \E qn \in QNames :
         /\ qs[qn] = "loading"
         /\ LET s1 == [qs EXCEPT ![qn] = "success"]
                s2 == Refresh(page, filters, filters, s1)
            IN /\ qs' = s2
               /\ newFetches' = Issued(page, filters, filters, s1, s2)
               /\ lastEv' = [ev |-> "queryResponse", query |-> qn]
    /\ UNCHANGED <<listVars, mutVars, scope, auxVars, viewVars, page, filters, dialogVars>>

-----------------------------------------------------------------------------
(* One entity dialog, driven by its page.                                  *)

\* Filters the page can hold when the dialog is used
DialogContexts(k) ==
    CASE k = "IkpDistrict" -> {NoFilters, [NoFilters EXCEPT !.stateId = "s1"]}
      [] k = "IkpMandal" ->
           {NoFilters, [NoFilters EXCEPT !.stateId = "s1", !.districtId = "d1"]}
      [] k = "IkpVillage" ->
           {[NoFilters EXCEPT !.stateId = "s1", !.districtId = "d1", !.mandalId = "m1"],
            [NoFilters EXCEPT !.stateId = "s2", !.districtId = "d3", !.mandalId = "m3"]}
      [] OTHER -> {NoFilters}

\* Every enabled option query of the page has answered
AllSuccess(p, f) ==
    [q \in QNames |->
        IF QueryEnabled(p, q, f, [x \in QNames |-> "success"]) THEN "success" ELSE "idle"]

\* The rows the list shows under the page's filters, once it shows any
EditRows(k, f, s) ==
    IF \/ k = "IkpDistrict" /\ s["states"] # "success"
       \/ k = "IkpMandal" /\ s["districts"] # "success"
       \/ k = "IkpVillage" /\ s["mandals"] # "success"
    THEN {}
    ELSE {r \in Rows : \A lvl \in Levels : f[lvl] # "" => r[lvl] = f[lvl]}

\* The disabled prop of the page's New ... button
NewDisabled(k, f, s) ==
    CASE k = "IkpDistrict" -> s["states"] # "success"
      [] k = "IkpMandal" ->
           s["districts"] # "success" \/ QueryItems("IkpMandals", "districts", f, s) = {}
      [] k = "IkpVillage" -> ~Truthy(f.mandalId)
      [] OTHER -> FALSE

\* The edit instance of the Locations dialogs is rendered only while editing
MountedWhileOpen(k, m) == k \in {"LocMandal", "LocVillage"} /\ m = "edit"

\* The initialValues prop of a render of the page
InitialValues(k, m, r, f, s) ==
    IF m = "create" THEN CreateValues(k, f)
    ELSE IF m = "edit"
         THEN EditValues(k, r, QueryItems(QueryHost(k), "districts", f, s),
                               QueryItems(QueryHost(k), "mandals", f, s))
         ELSE EmptyValues

InitDialog ==
    /\ scope = "dialog"
    /\ kind \in Kinds
    /\ mode \in (IF kind \in FormKinds THEN {"create", "edit"} ELSE {"bulk"})
    /\ page = OwnerPage(kind)
    /\ filters \in DialogContexts(kind)
    /\ qs = IF filters = NoFilters
            THEN Refresh(QueryHost(kind), NoFilters, NoFilters, Idle)
            ELSE AllSuccess(QueryHost(kind), filters)
    /\ newFetches = Issued(QueryHost(kind), filters, filters, Idle, qs)
    /\ open = FALSE
    /\ editing = NoRow
    /\ form = FormMount(kind, IF MountedWhileOpen(kind, mode) THEN EmptyValues
                              ELSE InitialValues(kind, mode, NoRow, filters, qs))
    /\ saving = FALSE
    /\ cache = <<>> /\ epoch = 0
    /\ isAdmin = FALSE /\ deactivateTarget = NoRow /\ deleteTarget = NoRow
    /\ bulkOpen = FALSE /\ inflight = {} /\ toasts = {}
    /\ NoAux
    /\ NoSearch
    /\ lastEv = [ev |-> "mount"]

\* The option queries after the dialog's values went from c to c2
DialogQueries(c, c2, s) ==
    LET sel == QuerySelections(kind, filters, c.values)
        sel2 == QuerySelections(kind, filters, c2.values)
        s2 == Refresh(QueryHost(kind), sel, sel2, s)
    IN /\ qs' = s2
       /\ newFetches' = Issued(QueryHost(kind), sel, sel2, s, s2)

\* The page re-renders: the dialog gets a new initialValues object
Rerendered(c, isOpen, r, s) ==
    IF kind \in FormKinds
    THEN Settle(kind, c, isOpen, InitialValues(kind, mode, r, filters, s),
                FALSE, TRUE, Watched(c))
    ELSE c

\* A bulk dialog that keeps its selections and text when it closes
BulkEffect_keeps(c, isOpen) == c
\* The bulk dialogs' effect on [open]: closed, it empties the selections
\* and the text
BulkEffect(c, isOpen) ==
    IF ~isOpen THEN [c EXCEPT !.values = EmptyValues] ELSE c

\* New ... / Edit on a row / Bulk upload
DialogOpen ==
    /\ scope = "dialog" /\ ~open
    /\ mode = "create" => ~NewDisabled(kind, filters, qs)
    /\ \E r \in (IF mode = "edit" THEN EditRows(kind, filters, qs) ELSE {NoRow}) :
         LET iv == InitialValues(kind, mode, r, filters, qs)
             c0 == IF MountedWhileOpen(kind, mode) THEN FormMount(kind, iv) ELSE form
             c2 == IF kind \in FormKinds
                   THEN Settle(kind, c0, TRUE, iv, TRUE, TRUE, Watched(c0))
                   ELSE form
         IN /\ editing' = r
            /\ form' = c2
            /\ DialogQueries(form, c2, qs)
            /\ lastEv' = [ev |-> "open"]
    /\ open' = TRUE
    /\ UNCHANGED <<listVars, mutVars, scope, auxVars, viewVars, page, filters, kind, mode, saving>>

\* Cancel, Escape or a click outside: onOpenChange(false)
DialogClose ==
    /\ scope = "dialog" /\ open
    /\ open' = FALSE
    /\ editing' = NoRow
    /\ LET c2 == IF MountedWhileOpen(kind, mode) THEN FormMount(kind, EmptyValues)
                 ELSE IF kind \in FormKinds THEN form
                 ELSE BulkEffect(form, FALSE)
       IN /\ form' = c2
          /\ DialogQueries(form, c2, qs)
    /\ lastEv' = [ev |-> "close"]
    /\ UNCHANGED <<listVars, mutVars, scope, auxVars, viewVars, page, filters, kind, mode, saving>>

\* The user picks a value in the selector of an id field
DialogPick ==
    /\ scope = "dialog" /\ open
    /\ \E lvl \in Levels :
         /\ HasField(kind, lvl)
         /\ ~DialogDisabled(kind, mode, lvl, form.values, filters, qs)
         /\ \E v \in DialogEmits(kind, lvl, form.values, filters, qs) :
              LET c1 == OnDialogChange(kind, form, lvl, v)
                  c2 == IF kind \in FormKinds
                        THEN Settle(kind, c1, TRUE,
                                    InitialValues(kind, mode, editing, filters, qs),
                                    FALSE, FALSE, Watched(form))
                        ELSE c1
              IN /\ form' = c2
                 /\ DialogQueries(form, c2, qs)
                 /\ lastEv' = [ev |-> "pick", level |-> lvl,
                               changed |-> c1.values[lvl] # form.values[lvl],
                               hadBelow |-> \E b \in FieldsBelow(kind, lvl) :
                                               form.values[b] # ""]
    /\ UNCHANGED <<listVars, mutVars, scope, auxVars, viewVars, page, filters, kind, mode, open, editing, saving>>

\* The user types a name or notes, ticks Active, or types the bulk items
DialogEdit ==
    /\ scope = "dialog" /\ open
    /\ \/ /\ kind \in FormKinds
          /\ \E n \in NamesOf(kind) \ {form.values.name} :
               form' = FieldOnChange(kind, form, "name", n)
       \/ /\ kind \in FormKinds
          /\ form' = FieldOnChange(kind, form, "isActive", ~form.values.isActive)
       \/ /\ kind \in CenterKinds
          /\ \E n \in NoteTexts \ {form.values.notes} :
               form' = FieldOnChange(kind, form, "notes", n)
       \/ /\ kind \notin FormKinds
          /\ \E t \in ItemTexts \ {form.values.items} :
               form' = [form EXCEPT !.values.items = t]
    /\ lastEv' = [ev |-> "other"]
    /\ UNCHANGED <<listVars, mutVars, scope, auxVars, viewVars, page, filters, qs, newFetches, kind, mode, open, editing, saving>>

\* Save: handleSubmit runs the resolver and calls onSave only with valid
\* data; Upload calls onUpload.  The mutation turns pending and the page
\* re-renders.
DialogSubmit ==
    /\ scope = "dialog" /\ open
    /\ ~SaveDisabled(kind, mode, form, saving, filters)
    /\ IF kind \in FormKinds /\ ~Valid(kind, form.values)
       THEN /\ lastEv' = [ev |-> "rejected"]
            /\ UNCHANGED <<form, saving, qs, newFetches>>
       ELSE /\ lastEv' = [ev |-> "submit",
                          request |-> Request(kind, mode, form.values, editing)]
            /\ saving' = TRUE
            /\ form' = Rerendered(form, TRUE, editing, qs)
            /\ DialogQueries(form, form', qs)
    /\ UNCHANGED <<listVars, mutVars, scope, auxVars, viewVars, page, filters, kind, mode, open, editing>>

\* The mutation settles: success closes the dialog, failure leaves it open
MutationSettled ==
    /\ scope = "dialog" /\ saving
    /\ saving' = FALSE
    /\ \E ok \in BOOLEAN :
         /\ open' = (open /\ ~ok)
         /\ editing' = IF ok THEN NoRow ELSE editing
         /\ LET c2 == IF open /\ ok
                      THEN (IF MountedWhileOpen(kind, mode) THEN FormMount(kind, EmptyValues)
                            ELSE IF kind \in FormKinds THEN form
                            ELSE BulkEffect(form, FALSE))
                      ELSE IF open THEN Rerendered(form, TRUE, editing, qs)
                      ELSE form
            IN /\ form' = c2
               /\ DialogQueries(form, c2, qs)
         /\ lastEv' = [ev |-> IF ok THEN "saved" ELSE "failed"]
    /\ UNCHANGED <<listVars, mutVars, scope, auxVars, viewVars, page, filters, kind, mode>>

\* The page re-renders for a reason of its own while the dialog is open
PageRerender ==
    /\ scope = "dialog" /\ open /\ kind \in FormKinds
    /\ form' = Rerendered(form, TRUE, editing, qs)
    /\ DialogQueries(form, form', qs)
    /\ lastEv' = [ev |-> "other"]
    /\ UNCHANGED <<listVars, mutVars, scope, auxVars, viewVars, page, filters, kind, mode, open, editing, saving>>

\* An option query feeding the dialog succeeds
DialogQueryResponse ==
    /\ scope = "dialog"
    /\ \E qn \in QNames :
         /\ qs[qn] = "loading"
         /\ LET s1 == [qs EXCEPT ![qn] = "success"]
                c2 == IF open /\ ~(kind = "IkpCenterSrv" /\ qn # "states")
                      THEN Rerendered(form, TRUE, editing, s1)
                      ELSE form
            IN /\ form' = c2
               /\ DialogQueries(form, c2, s1)
         /\ lastEv' = [ev |-> "other"]
    /\ UNCHANGED <<listVars, mutVars, scope, auxVars, viewVars, page, filters, kind, mode, open, editing, saving>>

-----------------------------------------------------------------------------
(* A list page with its list query and its create mutation.  The page is   *)
(* taken up once its option queries have answered; the create dialog is    *)
(* reduced to its open flag and the form behind it is left out.            *)

\* The dialog behind the page's New ... button
CreateKind(p) ==
    CASE p = "IkpDistricts" -> "IkpDistrict"
      [] p = "IkpMandals" -> "IkpMandal"
      [] p = "IkpVillages" -> "IkpVillage"
      [] p = "IkpCenters" -> "IkpCenterSrv"
      [] p = "LocMandals" -> "LocMandal"
      [] OTHER -> "LocVillage"

\* The filter selections the user moves the page between
PageContexts(p) ==
    CASE p = "IkpVillages" ->
           {NoFilters,
            [NoFilters EXCEPT !.stateId = "s1", !.districtId = "d1", !.mandalId = "m1"],
            [NoFilters EXCEPT !.stateId = "s2", !.districtId = "d3", !.mandalId = "m3"]}
      [] p = "IkpMandals" ->
           {NoFilters, [NoFilters EXCEPT !.stateId = "s1", !.districtId = "d1"]}
      [] OTHER -> {NoFilters, [NoFilters EXCEPT !.stateId = "s1"]}

\* queryKey of the page's list query (search, page and limit stay as mounted)
ListQueryKey(p, f) ==
    CASE p = "IkpCenters" ->
           <<"adminIkpCenters", f.stateId, f.districtId, f.mandalId, f.villageId>>
      [] p = "IkpMandals" -> <<"adminIkpMandals", f.districtId>>
      [] p = "IkpDistricts" -> <<"adminIkpDistricts", f.stateId>>
      [] p = "IkpVillages" -> <<"adminIkpVillages", f.mandalId>>
      [] p = "LocMandals" -> <<"adminMandals", f.stateId, f.districtId>>
      [] OTHER -> <<"adminVillages", f.stateId, f.districtId, f.mandalId>>

\* The enabled option of the list query
ListEnabled(p, f, s) ==
    CASE p = "IkpDistricts" -> s["states"] = "success"
      [] p = "IkpMandals" -> s["districts"] = "success"
      [] p = "IkpVillages" -> NonBlank(f.mandalId) /\ s["mandals"] = "success"
      [] OTHER -> TRUE

\* The query keys createMutation.onSuccess invalidates
CreateInvalidates(p) ==
    CASE p = "IkpCenters" -> {<<"adminIkpCenters">>, <<"adminIkpStatesForCenters">>}
      [] p = "IkpMandals" -> {<<"adminIkpMandals">>}
      [] p = "IkpDistricts" -> {<<"adminIkpDistricts">>}
      [] p = "IkpVillages" -> {<<"adminIkpVillages">>}
      [] p = "LocMandals" -> {<<"adminMandals">>}
      [] OTHER -> {<<"adminVillages">>}

\* A query filter matches the keys it is a prefix of
KeyMatches(pre, k) == Len(pre) <= Len(k) /\ \A i \in 1..Len(pre) : pre[i] = k[i]

\* A cached query: data and fetch hold the epoch at which the fetch behind
\* them was issued ({}: no data / not fetching)
NoQuery == [data |-> {}, fetch |-> {}, invalid |-> FALSE]
Entry(c, k) == IF k \in DOMAIN c THEN c[k] ELSE NoQuery
Put(c, k, q) == [x \in DOMAIN c \cup {k} |-> IF x = k THEN q ELSE c[x]]

\* useQuery turns to key k: cached data is shown at once; an enabled query
\* is fetched (its data is stale as soon as it arrives) unless a fetch of it
\* is still running
Observe(c, k, e, en) ==
    LET q == Entry(c, k)
    IN Put(c, k, IF en /\ q.fetch = {} THEN [q EXCEPT !.fetch = {e}] ELSE q)

\* A success handler that writes the list data itself
Refetch_optimistic(q, e) == [q EXCEPT !.data = {e}]
\* query.fetch with cancelRefetch: a running fetch is replaced only when the
\* query already holds data; a first fetch still running is kept
Refetch(q, e) ==
    IF q.fetch # {} /\ q.data = {} THEN q ELSE [q EXCEPT !.fetch = {e}]

\* invalidateQueries: every matching query is marked, the one on screen is
\* refetched if it is enabled
InvalidateQueries(c, pres, active, e, en) ==
    [k \in DOMAIN c |->
        IF \E pre \in pres : KeyMatches(pre, k)
        THEN LET q == [c[k] EXCEPT !.invalid = TRUE]
             IN IF k = active /\ en THEN Refetch(q, e) ELSE q
        ELSE c[k]]

\* A fetch succeeds
Respond(q) == [data |-> q.fetch, fetch |-> {}, invalid |-> FALSE]

\* listQuery.data of the render
Displayed(c, k) == Entry(c, k).data

\* Mutation requests are issued only while fewer than this many succeeded
MaxSuccesses == 2

\* The mutations a page defines
Ops(p) ==
    CASE p = "LocMandals" -> {"create", "update", "deactivate", "delete", "bulk"}
      [] p = "LocVillages" -> {"create", "update", "pincode", "deactivate", "delete", "bulk"}
      [] OTHER -> {"create", "update", "deactivate"}

\* What a rejected remote call throws: an Error with a message, or another value
Failures ==
    {[isError |-> TRUE, message |-> "Name already exists"],
     [isError |-> TRUE, message |-> ""],
     [isError |-> FALSE, message |-> Undefined]}
NoErr == [isError |-> FALSE, message |-> Null]

\* res.message of a successful call
Responses == {Undefined, "Saved"}

\* One fallback for every action of every page
Fallback_generic(p, op) == "Failed."
\* The second operand of `err instanceof Error ? err.message : "..."`
Fallback(p, op) ==
    CASE p = "IkpCenters" /\ op = "create" -> "Failed to create IKP center."
      [] p = "IkpCenters" /\ op = "update" -> "Failed to update IKP center."
      [] p = "IkpCenters" /\ op = "deactivate" -> "Failed to deactivate IKP center."
      [] p = "IkpDistricts" /\ op = "create" -> "Failed to create district."
      [] p = "IkpDistricts" /\ op = "update" -> "Failed to update district."
      [] p = "IkpDistricts" /\ op = "deactivate" -> "Failed to deactivate district."
      [] p = "IkpMandals" /\ op = "create" -> "Failed to create mandal."
      [] p = "IkpMandals" /\ op = "update" -> "Failed to update mandal."
      [] p = "IkpMandals" /\ op = "deactivate" -> "Failed to deactivate mandal."
      [] p = "IkpVillages" /\ op = "create" -> "Failed to create village."
      [] p = "IkpVillages" /\ op = "update" -> "Failed to update village."
      [] p = "IkpVillages" /\ op = "deactivate" -> "Failed to deactivate village."
      [] OTHER -> "Failed."

\* An onError that never reads the error
ErrorText_alwaysFallback(p, op, err) == Fallback(p, op)
\* The text onError hands to showToast
ErrorText(p, op, err) ==
    IF op = "pincode" THEN "Failed to update pincode."
    ELSE IF err.isError THEN err.message ELSE Fallback(p, op)

\* The text onSuccess hands to showToast
DefaultSuccess(p, op) ==
    CASE p = "IkpCenters" /\ op = "create" -> "IKP center created."
      [] p = "IkpCenters" /\ op = "update" -> "IKP center updated."
      [] p = "IkpCenters" /\ op = "deactivate" -> "IKP center deactivated."
      [] p = "IkpDistricts" /\ op = "create" -> "District created."
      [] p = "IkpDistricts" /\ op = "update" -> "District updated."
      [] p = "IkpDistricts" /\ op = "deactivate" -> "District deactivated."
      [] p \in {"IkpMandals", "LocMandals"} /\ op = "create" -> "Mandal created."
      [] p \in {"IkpMandals", "LocMandals"} /\ op = "update" -> "Mandal updated."
      [] p \in {"IkpMandals", "LocMandals"} /\ op = "deactivate" -> "Mandal deactivated."
      [] p = "LocMandals" /\ op = "delete" -> "Mandal deleted."
      [] p = "LocMandals" /\ op = "bulk" -> "Mandals uploaded."
      [] op = "create" -> "Village created."
      [] op = "update" -> "Village updated."
      [] op = "deactivate" -> "Village deactivated."
      [] op = "delete" -> "Village deleted."
      [] OTHER -> "Villages uploaded."
SuccessToasts(p, op, msg) ==
    IF op = "pincode" THEN {}
    ELSE {[type |-> "success",
           text |-> IF p \in {"IkpDistricts", "IkpMandals", "IkpVillages"} /\ msg # Undefined
                    THEN msg ELSE DefaultSuccess(p, op)]}

\* A page that renders its affordances whatever the role
CanManage_always(p, admin) == TRUE
\* {isAdmin && ...} on the Locations pages; the IKP pages read no role
CanManage(p, admin) == p \in IkpPages \/ admin

\* The confirmation is an AlertDialog whose action button may dismiss it
\* when clicked; on the other pages it is a Dialog with plain buttons
AlertDialogPages == {"IkpCenters", "LocMandals", "LocVillages"}

\* The confirm button carries disabled={mutation.isPending}
ConfirmGuarded(p) == p \in IkpPages

\* Some modal dialog of the page is open
Modal == \/ open \/ bulkOpen
         \/ editing.id # Null \/ deactivateTarget.id # Null \/ deleteTarget.id # Null

\* A second active row of the table
Row3 ==
    [id |-> "r3", stateId |-> "s1", districtId |-> "d1", mandalId |-> "m1",
     villageId |-> "v1", name |-> "L100", notes |-> Null, isActive |-> TRUE]

\* The ancestor ids the list query's queryFn hands to the API: the mandals
\* pages pass the district only and the villages pages the mandal only
ListParams(p, f) ==
    CASE p = "IkpCenters" -> f
      [] p = "IkpDistricts" -> [NoFilters EXCEPT !.stateId = f.stateId]
      [] p \in {"IkpMandals", "LocMandals"} -> [NoFilters EXCEPT !.districtId = f.districtId]
      [] OTHER -> [NoFilters EXCEPT !.mandalId = f.mandalId]

\* The rows the API returns: exactly those matching the ids it was handed
ApiRows(params) ==
    {r \in Rows \cup {Row3} :
        \A lvl \in Levels : params[lvl] # "" => r[lvl] = params[lvl]}

\* items: the rows of the table
Items == IF Displayed(cache, ListQueryKey(page, filters)) # {}
         THEN ApiRows(ListParams(page, filters))
         ELSE {}

NoReq == [op |-> "none", id |-> Null]
IsPending(op) == \E r \in inflight : r.op = op

\* The event record of a step
Ev(name, req, err) ==
    [lastEv EXCEPT !.ev = name, !.first = FALSE, !.req = req, !.err = err]

mutState == <<isAdmin, deactivateTarget, deleteTarget, bulkOpen, inflight>>
OnPage == scope \in {"page", "mut"}

InitPage ==
    /\ scope = "page"
    /\ page \in Pages
    /\ filters = NoFilters
    /\ qs = AllSuccess(page, filters)
    /\ newFetches = {}
    /\ kind = CreateKind(page) /\ mode = "create" /\ open = FALSE /\ editing = NoRow
    /\ form = FormMount("none", EmptyValues) /\ saving = FALSE
    /\ epoch = 0
    /\ cache = Observe(<<>>, ListQueryKey(page, filters), 0, ListEnabled(page, filters, qs))
    /\ isAdmin = TRUE /\ deactivateTarget = NoRow /\ deleteTarget = NoRow
    /\ bulkOpen = FALSE /\ inflight = {} /\ toasts = {}
    /\ NoAux
    /\ NoSearch
    /\ lastEv = [ev |-> "mount", pending |-> FALSE, first |-> FALSE,
                 req |-> NoReq, err |-> NoErr]

\* The user brings the filter bar to other selections
PageFilters ==
    /\ scope = "page" /\ ~Modal
    /\ \E f2 \in PageContexts(page) \ {filters} :
         LET s2 == AllSuccess(page, f2)
             k2 == ListQueryKey(page, f2)
             shown == Displayed(cache, k2) # {}
         IN /\ filters' = f2
            /\ qs' = s2
            /\ cache' = Observe(cache, k2, epoch, ListEnabled(page, f2, s2))
            /\ lastEv' = [Ev("filters", NoReq, NoErr) EXCEPT
                              !.pending = lastEv.pending /\ ~shown,
                              !.first = lastEv.pending /\ shown]
    /\ toasts' = {}
    /\ UNCHANGED <<mutState, scope, auxVars, viewVars, page, newFetches, dialogVars, epoch>>

\* New ...: setCreateOpen(true)
CreateOpen ==
    /\ OnPage /\ ~Modal
    /\ CanManage(page, isAdmin)
    /\ ~NewDisabled(kind, filters, qs)
    /\ open' = TRUE
    /\ lastEv' = Ev("open", NoReq, NoErr)
    /\ toasts' = {}
    /\ UNCHANGED <<listVars, mutState, scope, auxVars, viewVars, filterVars, kind, mode, editing, form, saving>>

\* Cancel or dismissal of the create dialog: onOpenChange(false)
CreateCancel ==
    /\ OnPage /\ open
    /\ open' = FALSE
    /\ lastEv' = Ev("cancel", NoReq, NoErr)
    /\ toasts' = {}
    /\ UNCHANGED <<listVars, mutState, scope, auxVars, viewVars, filterVars, kind, mode, editing, form, saving>>

\* Save in the create dialog: createMutation.mutate(...)
CreateSubmit ==
    /\ OnPage /\ open /\ ~saving
    /\ epoch + Cardinality(inflight) < MaxSuccesses
    /\ saving' = TRUE
    /\ lastEv' = Ev("submit", [op |-> "create", id |-> Null], NoErr)
    /\ toasts' = {}
    /\ UNCHANGED <<listVars, mutState, scope, auxVars, viewVars, filterVars, kind, mode, open, editing, form>>

\* createMutation.onSuccess
CreateSuccess ==
    /\ OnPage /\ saving
    /\ saving' = FALSE
    /\ open' = FALSE
    /\ epoch' = epoch + 1
    /\ cache' = InvalidateQueries(cache, CreateInvalidates(page),
                                  ListQueryKey(page, filters), epoch + 1,
                                  ListEnabled(page, filters, qs))
    /\ \E msg \in Responses : toasts' = SuccessToasts(page, "create", msg)
    /\ lastEv' = [Ev("created", [op |-> "create", id |-> Null], NoErr) EXCEPT
                      !.pending = TRUE]
    /\ UNCHANGED <<mutState, scope, auxVars, viewVars, filterVars, kind, mode, editing, form>>

\* createMutation.onError
CreateError ==
    /\ OnPage /\ saving
    /\ saving' = FALSE
    /\ \E err \in Failures :
         /\ toasts' = {[type |-> "error", text |-> ErrorText(page, "create", err)]}
         /\ lastEv' = Ev("failed", [op |-> "create", id |-> Null], err)
    /\ UNCHANGED <<listVars, mutState, scope, auxVars, viewVars, filterVars, kind, mode, open, editing, form>>

\* A fetch of a list query succeeds
ListResponse ==
    /\ OnPage
    /\ \E k \in DOMAIN cache :
         /\ cache[k].fetch # {}
         /\ cache' = [cache EXCEPT ![k] = Respond(cache[k])]
         /\ LET shown == k = ListQueryKey(page, filters)
            IN lastEv' = [Ev("listResponse", NoReq, NoErr) EXCEPT
                             !.pending = lastEv.pending /\ ~shown,
                             !.first = lastEv.pending /\ shown]
    /\ toasts' = {}
    /\ UNCHANGED <<mutState, scope, auxVars, viewVars, filterVars, dialogVars, epoch>>

PageNext ==
    \/ PageFilters
    \/ CreateOpen
    \/ CreateCancel
    \/ CreateSubmit
    \/ CreateSuccess
    \/ CreateError
    \/ ListResponse

PageSpec == InitPage /\ [][PageNext]_vars

-----------------------------------------------------------------------------
(* The row actions, confirmations and mutations of a list page.            *)

\* The filter selections under which the page's mutations are exercised
MutContexts(p) ==
    IF p = "IkpVillages" THEN PageContexts(p) \ {NoFilters} ELSE {NoFilters}

\* The budget of requests that may still succeed
Budget == epoch + Cardinality(inflight) + (IF saving THEN 1 ELSE 0) < MaxSuccesses

\* Every mutation of a page invalidates the same keys on success
Invalidates(p, op) == CreateInvalidates(p)

InitMut ==
    /\ scope = "mut"
    /\ page \in Pages
    /\ filters \in MutContexts(page)
    /\ qs = AllSuccess(page, filters)
    /\ newFetches = {}
    /\ kind = CreateKind(page) /\ mode = "create" /\ open = FALSE /\ editing = NoRow
    /\ form = FormMount("none", EmptyValues) /\ saving = FALSE
    /\ epoch = 0
    /\ cache = Observe(<<>>, ListQueryKey(page, filters), 0, ListEnabled(page, filters, qs))
    /\ isAdmin \in (IF page \in LocPages THEN BOOLEAN ELSE {FALSE})
    /\ deactivateTarget = NoRow /\ deleteTarget = NoRow
    /\ bulkOpen = FALSE /\ inflight = {} /\ toasts = {}
    /\ NoAux
    /\ NoSearch
    /\ lastEv = [ev |-> "mount", pending |-> FALSE, first |-> FALSE,
                 req |-> NoReq, err |-> NoErr]

\* A handler that clears its dialog state on failure as well
AfterSettle_clearsAlways(target, own, ok) == IF own THEN NoRow ELSE target
\* The dialog target a settled mutation leaves: onSuccess clears the target
\* of its own dialog (setEditing(null), setDeactivateTarget(null), ...),
\* onError sets nothing
AfterSettle(target, own, ok) == IF own /\ ok THEN NoRow ELSE target

\* Edit in a row's menu: setEditing(row)
RowEdit ==
    /\ scope = "mut" /\ ~Modal /\ CanManage(page, isAdmin)
    /\ \E r \in Items : editing' = r
    /\ lastEv' = Ev("rowEdit", NoReq, NoErr)
    /\ toasts' = {}
    /\ UNCHANGED <<listVars, mutState, scope, auxVars, viewVars, filterVars, kind, mode, open, form, saving>>

\* Cancel or dismissal of the edit dialog: setEditing(null)
EditCancel ==
    /\ scope = "mut" /\ editing.id # Null
    /\ editing' = NoRow
    /\ lastEv' = Ev("cancel", NoReq, NoErr)
    /\ toasts' = {}
    /\ UNCHANGED <<listVars, mutState, scope, auxVars, viewVars, filterVars, kind, mode, open, form, saving>>

\* Save in the edit dialog: updateMutation.mutate({ id: editing.id, ... })
EditSubmit ==
    /\ scope = "mut" /\ editing.id # Null
    /\ ~IsPending("update")
    /\ Budget
    /\ LET req == [op |-> "update", id |-> editing.id]
       IN /\ inflight' = inflight \cup {req}
          /\ lastEv' = Ev("submit", req, NoErr)
    /\ toasts' = {}
    /\ UNCHANGED <<listVars, isAdmin, deactivateTarget, deleteTarget, bulkOpen, scope, auxVars, viewVars,
                   filterVars, dialogVars>>

\* Deactivate / Delete in a row's menu
RowConfirm ==
    /\ scope = "mut" /\ ~Modal /\ CanManage(page, isAdmin)
    /\ \E r \in Items :
         \/ /\ r.isActive
            /\ deactivateTarget' = r
            /\ lastEv' = Ev("rowDeactivate", NoReq, NoErr)
            /\ UNCHANGED deleteTarget
         \/ /\ "delete" \in Ops(page)
            /\ deleteTarget' = r
            /\ lastEv' = Ev("rowDelete", NoReq, NoErr)
            /\ UNCHANGED deactivateTarget
    /\ toasts' = {}
    /\ UNCHANGED <<listVars, isAdmin, bulkOpen, inflight, scope, auxVars, viewVars, filterVars, dialogVars>>

\* Cancel or dismissal of a confirmation
ConfirmCancel ==
    /\ scope = "mut"
    /\ \/ /\ deactivateTarget.id # Null
          /\ deactivateTarget' = NoRow
          /\ UNCHANGED deleteTarget
       \/ /\ deleteTarget.id # Null
          /\ deleteTarget' = NoRow
          /\ UNCHANGED deactivateTarget
    /\ lastEv' = Ev("cancel", NoReq, NoErr)
    /\ toasts' = {}
    /\ UNCHANGED <<listVars, isAdmin, bulkOpen, inflight, scope, auxVars, viewVars, filterVars, dialogVars>>

\* A confirmation that always acts on the first row
ConfirmRequest_firstRow(op, target) == [op |-> op, id |-> "r1"]
\* deactivateMutation.mutate(deactivateTarget.id), deleteMutation.mutate(deleteTarget.id)
ConfirmRequest(op, target) == [op |-> op, id |-> target.id]

\* The confirm button of a confirmation
Confirm ==
    /\ scope = "mut"
    /\ \E op \in {"deactivate", "delete"} :
         LET target == IF op = "deactivate" THEN deactivateTarget ELSE deleteTarget
             req == ConfirmRequest(op, target)
         IN /\ target.id # Null
            /\ ConfirmGuarded(page) => ~IsPending(op)
            /\ Budget
            /\ inflight' = inflight \cup {req}
            /\ lastEv' = Ev("submit", req, NoErr)
            /\ \E dismissed \in (IF page \in AlertDialogPages THEN BOOLEAN ELSE {FALSE}) :
                 /\ deactivateTarget' =
                      IF op = "deactivate" /\ dismissed THEN NoRow ELSE deactivateTarget
                 /\ deleteTarget' =
                      IF op = "delete" /\ dismissed THEN NoRow ELSE deleteTarget
    /\ toasts' = {}
    /\ UNCHANGED <<listVars, isAdmin, bulkOpen, scope, auxVars, viewVars, filterVars, dialogVars>>

\* Bulk Upload, Cancel and Upload of the bulk dialog
Bulk ==
    /\ scope = "mut" /\ "bulk" \in Ops(page)
    /\ \/ /\ ~Modal /\ CanManage(page, isAdmin)
          /\ bulkOpen' = TRUE
          /\ lastEv' = Ev("open", NoReq, NoErr)
          /\ UNCHANGED inflight
       \/ /\ bulkOpen
          /\ bulkOpen' = FALSE
          /\ lastEv' = Ev("cancel", NoReq, NoErr)
          /\ UNCHANGED inflight
       \/ /\ bulkOpen /\ ~IsPending("bulk")
          /\ Budget
          /\ inflight' = inflight \cup {[op |-> "bulk", id |-> Null]}
          /\ lastEv' = Ev("submit", [op |-> "bulk", id |-> Null], NoErr)
          /\ UNCHANGED bulkOpen
    /\ toasts' = {}
    /\ UNCHANGED <<listVars, isAdmin, deactivateTarget, deleteTarget, scope, auxVars, viewVars, filterVars,
                   dialogVars>>

\* Blur of a row's pincode input with a changed value
PincodeBlur ==
    /\ scope = "mut" /\ "pincode" \in Ops(page)
    /\ ~Modal /\ CanManage(page, isAdmin)
    /\ Budget
    /\ \E r \in Items :
         LET req == [op |-> "pincode", id |-> r.id]
         IN /\ inflight' = inflight \cup {req}
            /\ lastEv' = Ev("submit", req, NoErr)
    /\ toasts' = {}
    /\ UNCHANGED <<listVars, isAdmin, deactivateTarget, deleteTarget, bulkOpen, scope, auxVars, viewVars,
                   filterVars, dialogVars>>

\* onSuccess of the update, deactivate, delete, bulk and pincode mutations
MutationSuccess ==
    /\ scope = "mut"
    /\ \E req \in inflight :
         /\ inflight' = inflight \ {req}
         /\ editing' = AfterSettle(editing, req.op = "update", TRUE)
         /\ deactivateTarget' = AfterSettle(deactivateTarget, req.op = "deactivate", TRUE)
         /\ deleteTarget' = AfterSettle(deleteTarget, req.op = "delete", TRUE)
         /\ bulkOpen' = IF req.op = "bulk" THEN FALSE ELSE bulkOpen
         /\ epoch' = epoch + 1
         /\ cache' = InvalidateQueries(cache, Invalidates(page, req.op),
                                       ListQueryKey(page, filters), epoch + 1,
                                       ListEnabled(page, filters, qs))
         /\ \E msg \in Responses : toasts' = SuccessToasts(page, req.op, msg)
         /\ lastEv' = [Ev("succeeded", req, NoErr) EXCEPT !.pending = TRUE]
    /\ UNCHANGED <<isAdmin, scope, auxVars, viewVars, filterVars, kind, mode, open, form, saving>>

\* onError of the update, deactivate, delete, bulk and pincode mutations
MutationError ==
    /\ scope = "mut"
    /\ \E req \in inflight, err \in Failures :
         /\ inflight' = inflight \ {req}
         /\ toasts' = {[type |-> "error", text |-> ErrorText(page, req.op, err)]}
         /\ lastEv' = Ev("failed", req, err)
         /\ editing' = AfterSettle(editing, req.op = "update", FALSE)
         /\ deactivateTarget' = AfterSettle(deactivateTarget, req.op = "deactivate", FALSE)
         /\ deleteTarget' = AfterSettle(deleteTarget, req.op = "delete", FALSE)
    /\ UNCHANGED <<listVars, isAdmin, bulkOpen, scope, auxVars, viewVars, filterVars, kind, mode, open, form,
                   saving>>

MutNext ==
    \/ CreateOpen
    \/ CreateCancel
    \/ CreateSubmit
    \/ CreateSuccess
    \/ CreateError
    \/ ListResponse
    \/ RowEdit
    \/ EditCancel
    \/ EditSubmit
    \/ RowConfirm
    \/ ConfirmCancel
    \/ Confirm
    \/ Bulk
    \/ PincodeBlur
    \/ MutationSuccess
    \/ MutationError

MutSpec == InitMut /\ [][MutNext]_vars

-----------------------------------------------------------------------------
(* The table and the search box of a list page.  A query is "idle" (no     *)
(* data, not fetching), "loading" (no data, first fetch running), "error"  *)
(* (first fetch failed) or has data; the list query has data with no items *)
(* ("empty") or with items ("rows").  Filters are picked top down from an  *)
(* empty filter bar, so every list query key is new when it is reached.    *)

\* The values picked in the filter bar
ViewPicks == {"s1", "d1", "m1", "v1"}
ListOutcomes == {"empty", "rows", "error"}

\* The search entry of the list query key and of the request
SearchParam(p, s, d) == IF p \in LocPages THEN d ELSE s

\* The observer of the list query after a render
ObserveList(l, t, enabled) ==
    IF enabled /\ l[t] = "idle" THEN [l EXCEPT ![t] = "loading"] ELSE l

\* query.isLoading: the first fetch is running
IsLoading(st) == st = "loading"

\* {!mandalId ? <div>Select a mandal to view villages.</div> : <Table>}
TableShown(p, f) == p = "IkpVillages" => Truthy(f.mandalId)

\* The condition of the loading row
LoadingRow(p, s, st) ==
    CASE p = "IkpMandals" ->
           IsLoading(s["states"]) \/ IsLoading(s["districts"]) \/ IsLoading(st)
      [] p = "IkpDistricts" -> IsLoading(s["states"]) \/ IsLoading(st)
      [] OTHER -> IsLoading(st)

\* The body of the table: loading ? ... : items.length === 0 ? ... : rows
TableBody(p, s, st) ==
    IF LoadingRow(p, s, st) THEN "loading"
    ELSE IF st # "rows" THEN "empty"
    ELSE "rows"

\* The condition of the error block under the table
ErrorMessage(p, s, st) ==
    CASE p = "IkpMandals" -> s["states"] = "error" \/ s["districts"] = "error" \/ st = "error"
      [] p = "IkpDistricts" -> s["states"] = "error" \/ st = "error"
      [] p \in {"IkpCenters", "IkpVillages"} -> st = "error"
      [] OTHER -> FALSE

ListStatus == lq[SearchParam(page, search, debouncedSearch)]

InitView ==
    /\ scope = "view"
    /\ page \in Pages
    /\ filters = NoFilters
    /\ qs = Refresh(page, NoFilters, NoFilters, Idle)
    /\ newFetches = {}
    /\ kind = "none" /\ mode = "none" /\ open = FALSE /\ editing = NoRow
    /\ form = FormMount("none", EmptyValues) /\ saving = FALSE
    /\ cache = <<>> /\ epoch = 0
    /\ isAdmin = FALSE /\ deactivateTarget = NoRow /\ deleteTarget = NoRow
    /\ bulkOpen = FALSE /\ inflight = {} /\ toasts = {}
    /\ NoAux
    /\ search = "" /\ debouncedSearch = "" /\ timer = FALSE
    /\ lq = ObserveList([t \in SearchTexts |-> "idle"], "", ListEnabled(page, filters, qs))
    /\ lastEv = [ev |-> "mount"]

\* The user picks a value in an empty filter selector
ViewFilterChange ==
    /\ scope = "view"
    /\ \E lvl \in Levels :
         /\ InChain(page, lvl)
         /\ ~FilterDisabled(page, lvl, filters)
         /\ filters[lvl] = "" /\ \A b \in Below(page, lvl) : filters[b] = ""
         /\ \E v \in FilterEmits(page, lvl, filters, qs) \cap ViewPicks :
              LET f2 == OnFilterChange(page, lvl, filters, v)
                  s2 == Refresh(page, filters, f2, qs)
                  l1 == IF ListQueryKey(page, f2) # ListQueryKey(page, filters)
                        THEN [t \in SearchTexts |-> "idle"] ELSE lq
              IN /\ filters' = f2
                 /\ qs' = s2
                 /\ lq' = ObserveList(l1, SearchParam(page, search, debouncedSearch),
                                      ListEnabled(page, f2, s2))
    /\ lastEv' = [ev |-> "filterChange"]
    /\ UNCHANGED <<listVars, mutVars, scope, auxVars, page, newFetches, dialogVars,
                   search, debouncedSearch, timer>>

\* The fetch of an option query succeeds or fails
ViewQueryResponse ==
    /\ scope = "view"
    /\ \E qn \in QNames, outcome \in {"success", "error"} :
         /\ qs[qn] = "loading"
         /\ LET s2 == Refresh(page, filters, filters, [qs EXCEPT ![qn] = outcome])
            IN /\ qs' = s2
               /\ lq' = ObserveList(lq, SearchParam(page, search, debouncedSearch),
                                    ListEnabled(page, filters, s2))
    /\ lastEv' = [ev |-> "queryResponse"]
    /\ UNCHANGED <<listVars, mutVars, scope, auxVars, page, filters, newFetches, dialogVars,
                   search, debouncedSearch, timer>>

\* A keystroke in the search box: setSearch(e.target.value)
SearchChange ==
    /\ scope = "view"
    /\ \E t \in SearchTexts \ {search} :
         /\ search' = t
         /\ timer' = (page \in LocPages)
         /\ lq' = ObserveList(lq, SearchParam(page, t, debouncedSearch),
                              ListEnabled(page, filters, qs))
    /\ lastEv' = [ev |-> "search"]
    /\ UNCHANGED <<listVars, mutVars, scope, auxVars, filterVars, dialogVars, debouncedSearch>>

\* The timeout of useDebounce(search, 300) fires
DebounceFire ==
    /\ scope = "view" /\ timer
    /\ timer' = FALSE
    /\ debouncedSearch' = search
    /\ lq' = ObserveList(lq, SearchParam(page, search, search),
                         ListEnabled(page, filters, qs))
    /\ lastEv' = [ev |-> "debounced"]
    /\ UNCHANGED <<listVars, mutVars, scope, auxVars, filterVars, dialogVars, search>>

\* The first fetch of a list query succeeds or fails
ViewListResponse ==
    /\ scope = "view"
    /\ \E t \in SearchTexts, outcome \in ListOutcomes :
         /\ lq[t] = "loading"
         /\ lq' = [lq EXCEPT ![t] = outcome]
    /\ lastEv' = [ev |-> "listResponse"]
    /\ UNCHANGED <<listVars, mutVars, scope, auxVars, filterVars, dialogVars,
                   search, debouncedSearch, timer>>

ViewNext ==
    \/ ViewFilterChange
    \/ ViewQueryResponse
    \/ SearchChange
    \/ DebounceFire
    \/ ViewListResponse

ViewSpec == InitView /\ [][ViewNext]_vars

-----------------------------------------------------------------------------
(* The IKP master page: the tab of the URL.  A string is a sequence of     *)
(* characters here, so that trim and toLowerCase are computed.             *)

UpperChars == <<"S", "T", "A", "E", "D", "I", "R", "C", "M", "N", "L", "V", "G", "X">>
LowerChars == <<"s", "t", "a", "e", "d", "i", "r", "c", "m", "n", "l", "v", "g", "x">>
WhiteSpace == {" ", "\t"}
\* searchParams.get("tab") of a URL without the parameter
NoTab == <<Null>>

\* One character of String.prototype.toLowerCase / toUpperCase
LowerChar(c) ==
    IF \E i \in DOMAIN UpperChars : UpperChars[i] = c
    THEN LowerChars[CHOOSE i \in DOMAIN UpperChars : UpperChars[i] = c] ELSE c
UpperChar(c) ==
    IF \E i \in DOMAIN LowerChars : LowerChars[i] = c
    THEN UpperChars[CHOOSE i \in DOMAIN LowerChars : LowerChars[i] = c] ELSE c
ToLowerCase(w) == [i \in DOMAIN w |-> LowerChar(w[i])]
ToUpperCase(w) == [i \in DOMAIN w |-> UpperChar(w[i])]

\* String.prototype.trim
RECURSIVE TrimStart(_)
TrimStart(w) == IF w # <<>> /\ Head(w) \in WhiteSpace THEN TrimStart(Tail(w)) ELSE w
RECURSIVE TrimEnd(_)
TrimEnd(w) ==
    IF w # <<>> /\ w[Len(w)] \in WhiteSpace THEN TrimEnd(SubSeq(w, 1, Len(w) - 1)) ELSE w
TrimChars(w) == TrimEnd(TrimStart(w))

TabStates == <<"s", "t", "a", "t", "e", "s">>
TabDistricts == <<"d", "i", "s", "t", "r", "i", "c", "t", "s">>
TabMandals == <<"m", "a", "n", "d", "a", "l", "s">>
TabVillages == <<"v", "i", "l", "l", "a", "g", "e", "s">>
allowedTabs == {TabStates, TabDistricts, TabMandals, TabVillages}

\* A normalizeTab that does not trim
normalizeTab_noTrim(value) ==
    IF value = NoTab \/ value = <<>> THEN TabStates
    ELSE IF ToLowerCase(value) \in allowedTabs THEN ToLowerCase(value) ELSE TabStates
normalizeTab(value) ==
    IF value = NoTab \/ value = <<>> THEN TabStates
    ELSE LET v == ToLowerCase(TrimChars(value))
         IN IF v \in allowedTabs THEN v ELSE TabStates

\* The values of ?tab= a user can arrive with
TabWords ==
    allowedTabs \cup {<<>>, <<"x">>, <<"s", "t", "a", "t", "e">>,
                      <<"m", "a", "n", " ", "d", "a", "l", "s">>}
Capitalised(w) == IF w = <<>> THEN w ELSE <<UpperChar(Head(w))>> \o Tail(w)
Pads == {<<>>, <<" ">>, <<"\t", " ">>}
TabInputs ==
    {NoTab} \cup
    {l \o c \o r : l \in Pads, r \in Pads,
                   c \in UNION {{w, ToUpperCase(w), Capitalised(w)} : w \in TabWords}}

\* tab = normalizeTab(searchParams.get("tab"))
Tab == normalizeTab(urlTab)

InitTab ==
    /\ scope = "tab"
    /\ page = "IkpMaster"
    /\ filters = NoFilters
    /\ qs = Idle
    /\ newFetches = {}
    /\ kind = "none" /\ mode = "none" /\ open = FALSE /\ editing = NoRow
    /\ form = FormMount("none", EmptyValues) /\ saving = FALSE
    /\ cache = <<>> /\ epoch = 0
    /\ isAdmin = FALSE /\ deactivateTarget = NoRow /\ deleteTarget = NoRow
    /\ bulkOpen = FALSE /\ inflight = {} /\ toasts = {}
    /\ NoSearch
    /\ urlTab \in TabInputs
    /\ oc = [k \in OptKeys |-> NoOption]
    /\ pg = NoPager
    /\ pin = NoPin
    /\ lastEv = [ev |-> "mount"]

\* The user follows a link to the page
TabNavigate ==
    /\ scope = "tab"
    /\ \E v \in TabInputs \ {urlTab} : urlTab' = v
    /\ lastEv' = [ev |-> "navigate"]
    /\ UNCHANGED <<listVars, mutVars, scope, viewVars, filterVars, dialogVars, optVars, pagerVars, pinVars>>

\* A click on a tab trigger: sp.set("tab", normalizeTab(next))
TabChange ==
    /\ scope = "tab"
    /\ \E next \in allowedTabs : urlTab' = normalizeTab(next)
    /\ lastEv' = [ev |-> "tabChange"]
    /\ UNCHANGED <<listVars, mutVars, scope, viewVars, filterVars, dialogVars, optVars, pagerVars, pinVars>>

TabNext == TabNavigate \/ TabChange

TabSpec == InitTab /\ [][TabNext]_vars

-----------------------------------------------------------------------------
(* The parent-keyed option queries of the server-filtered IKP pages and of *)
(* the server-filtered IKP center dialog, with the query cache kept by     *)
(* key.  `filters` holds the selections the queries are keyed by: the      *)
(* page's filters, or the dialog's watched form values once its cascade    *)
(* effects have run.                                                       *)

ServerHosts == {"IkpCenters", "IkpVillages", "IkpMandals", "IkpCenterDialog"}

\* The page whose handlers and disabled props the host's selectors follow
HandlerHost(p) == IF p = "IkpCenterDialog" THEN "IkpCenters" ELSE p

\* The status of each option query for the key it holds now
OptStatus(c, p, f) ==
    [qn \in QNames |->
        LET e == c[<<qn, QueryKey(p, qn, f)>>]
        IN IF e.has THEN "success" ELSE IF e.fetching THEN "loading" ELSE "idle"]

\* The observer of one option query after a render: an enabled query
\* without data that is not fetching starts to fetch
OptObserveOne(c, p, f, qn) ==
    LET k == <<qn, QueryKey(p, qn, f)>>
    IN IF QueryEnabled(p, qn, f, OptStatus(c, p, f)) /\ ~c[k].has /\ ~c[k].fetching
       THEN [c EXCEPT ![k] = [NoOption EXCEPT !.fetching = TRUE,
                                              !.param = QueryParam(p, qn, f)]]
       ELSE c
OptObserve(c, p, f) ==
    OptObserveOne(OptObserveOne(OptObserveOne(OptObserveOne(c, p, f, "states"),
                  p, f, "districts"), p, f, "mandals"), p, f, "villages")

\* query.data?.data.items ?? [] of the query for the current key
OptItems(c, p, f, qn) ==
    IF QueryExists(p, qn) THEN c[<<qn, QueryKey(p, qn, f)>>].items ELSE {}

InitOpt ==
    /\ scope = "opt"
    /\ page \in ServerHosts
    /\ filters = NoFilters
    /\ qs = Idle
    /\ newFetches = {}
    /\ kind = "none" /\ mode = "none" /\ open = FALSE /\ editing = NoRow
    /\ form = FormMount("none", EmptyValues) /\ saving = FALSE
    /\ cache = <<>> /\ epoch = 0
    /\ isAdmin = FALSE /\ deactivateTarget = NoRow /\ deleteTarget = NoRow
    /\ bulkOpen = FALSE /\ inflight = {} /\ toasts = {}
    /\ NoSearch
    /\ urlTab = <<Null>>
    /\ pg = NoPager
    /\ pin = NoPin
    /\ oc = OptObserve([k \in OptKeys |-> NoOption], page, NoFilters)
    /\ lastEv = [ev |-> "mount"]

\* The user picks an option (or clears the selector) at a level
OptSelect ==
    /\ scope = "opt"
    /\ \E lvl \in Levels :
         /\ InChain(HandlerHost(page), lvl)
         /\ ~FilterDisabled(HandlerHost(page), lvl, filters)
         /\ \E v \in OptItems(oc, page, filters, QueryOf(lvl)) \cup {Null} :
              LET f2 == OnFilterChange(HandlerHost(page), lvl, filters, v)
              IN /\ f2 # filters
                 /\ filters' = f2
                 /\ oc' = OptObserve(oc, page, f2)
    /\ lastEv' = [ev |-> "select"]
    /\ UNCHANGED <<listVars, mutVars, scope, viewVars, page, qs, newFetches, dialogVars,
                   tabVars, pagerVars, pinVars>>

\* The response of an option fetch arrives, for whatever key it was issued
OptResponse ==
    /\ scope = "opt"
    /\ \E k \in OptKeys :
         /\ oc[k].fetching
         /\ LET c1 == [oc EXCEPT ![k] = [has |-> TRUE, fetching |-> FALSE,
                                          param |-> oc[k].param,
                                          items |-> ApiList(LevelOf(k[1]), oc[k].param)]]
            IN oc' = OptObserve(c1, page, filters)
         /\ lastEv' = [ev |-> "response", late |-> k[2] # QueryKey(page, k[1], filters)]
    /\ UNCHANGED <<listVars, mutVars, scope, viewVars, filterVars, dialogVars, tabVars, pagerVars, pinVars>>

OptNext == OptSelect \/ OptResponse

OptSpec == InitOpt /\ [][OptNext]_vars

-----------------------------------------------------------------------------
(* The paginated list of the Locations Mandals and Villages pages.  The    *)
(* list query is keyed by page number, debounced search and filters.  The  *)
(* observer is followed on the key it holds: a key it moves to starts      *)
(* without data and receives it with the response (a key still cached      *)
(* shows the same data at once, which is the state after that response).   *)

DEFAULT_PAGE_SIZE == 10

\* The ids the user picks in the filter bar
PagerIds == {"s1", "d1", "m1"}

\* queryKey of the paginated list query
PagerKey(p, no, d, f) ==
    IF p = "LocMandals" THEN <<"adminMandals", no, d, f.stateId, f.districtId>>
    ELSE <<"adminVillages", no, d, f.stateId, f.districtId, f.mandalId>>

\* total of the API's answer: the number of rows matching the search and
\* the id the queryFn passes, whatever the page asked for
ListTotal(p, d, f) ==
    LET id == IF p = "LocMandals" THEN ListParams(p, f).districtId
              ELSE ListParams(p, f).mandalId
    IN IF id = "" THEN (IF d = "" THEN 25 ELSE 12)
       ELSE (IF d = "" THEN 5 ELSE 0)

\* The list query's observer after a render: data only for the key asked
PagerObserve(g, p, no, d, f) ==
    [no |-> no, key |-> PagerKey(p, no, d, f),
     has |-> g.has /\ g.key = PagerKey(p, no, d, f)]

\* query.data is defined for the key the page observes
PagerHasData == pg.has
\* query.data?.data?.total ?? 0
Total == IF PagerHasData THEN ListTotal(page, debouncedSearch, filters) ELSE 0
\* Math.ceil(total / DEFAULT_PAGE_SIZE)
TotalPages == (Total + DEFAULT_PAGE_SIZE - 1) \div DEFAULT_PAGE_SIZE

Max(a, b) == IF a >= b THEN a ELSE b
Min(a, b) == IF a <= b THEN a ELSE b

InitPager ==
    /\ scope = "pager"
    /\ page \in LocPages
    /\ filters = NoFilters
    /\ qs = AllSuccess(page, NoFilters)
    /\ newFetches = {}
    /\ kind = "none" /\ mode = "none" /\ open = FALSE /\ editing = NoRow
    /\ form = FormMount("none", EmptyValues) /\ saving = FALSE
    /\ cache = <<>> /\ epoch = 0
    /\ isAdmin = TRUE /\ deactivateTarget = NoRow /\ deleteTarget = NoRow
    /\ bulkOpen = FALSE /\ inflight = {} /\ toasts = {}
    /\ NoSearch
    /\ urlTab = <<Null>>
    /\ oc = [k \in OptKeys |-> NoOption]
    /\ pg = PagerObserve(NoPager, page, 1, "", NoFilters)
    /\ pin = NoPin
    /\ lastEv = [ev |-> "mount"]

\* Previous: setPage(p => Math.max(1, p - 1)), disabled={page <= 1}
PagerPrevious ==
    /\ scope = "pager"
    /\ ~(pg.no <= 1)
    /\ pg' = PagerObserve(pg, page, Max(1, pg.no - 1), debouncedSearch, filters)
    /\ lastEv' = [ev |-> "previous"]
    /\ UNCHANGED <<listVars, mutVars, scope, viewVars, filterVars, dialogVars,
                   tabVars, optVars, pinVars>>

\* Next: setPage(p => Math.min(totalPages, p + 1)), disabled={page >= totalPages}
PagerNextPage ==
    /\ scope = "pager"
    /\ ~(pg.no >= TotalPages)
    /\ pg' = PagerObserve(pg, page, Min(TotalPages, pg.no + 1), debouncedSearch, filters)
    /\ lastEv' = [ev |-> "next"]
    /\ UNCHANGED <<listVars, mutVars, scope, viewVars, filterVars, dialogVars,
                   tabVars, optVars, pinVars>>

\* The user edits the search box: setSearch(e.target.value)
PagerSearch ==
    /\ scope = "pager"
    /\ \E t \in {"", "a"} \ {search} :
         /\ search' = t
         /\ timer' = TRUE
    /\ lastEv' = [ev |-> "search"]
    /\ UNCHANGED <<listVars, mutVars, scope, filterVars, dialogVars, lq, debouncedSearch,
                   auxVars>>

\* The timeout of useDebounce(search, 300) fires
PagerDebounce ==
    /\ scope = "pager" /\ timer
    /\ timer' = FALSE
    /\ debouncedSearch' = search
    /\ pg' = PagerObserve(pg, page, pg.no, search, filters)
    /\ lastEv' = [ev |-> "debounced"]
    /\ UNCHANGED <<listVars, mutVars, scope, filterVars, dialogVars, lq, search,
                   tabVars, optVars, pinVars>>

\* The user picks an entry of a filter selector
PagerFilter ==
    /\ scope = "pager"
    /\ \E lvl \in Levels :
         /\ InChain(page, lvl)
         /\ ~FilterDisabled(page, lvl, filters)
         /\ \E x \in FilterPicks(page, lvl, filters, qs) \cap PagerIds :
              LET f2 == OnFilterChange(page, lvl, filters, FilterEmit(page, filters[lvl], x))
              IN /\ filters' = f2
                 /\ qs' = AllSuccess(page, f2)
                 /\ pg' = PagerObserve(pg, page, pg.no, debouncedSearch, f2)
    /\ lastEv' = [ev |-> "filter"]
    /\ UNCHANGED <<listVars, mutVars, scope, viewVars, page, newFetches, dialogVars,
                   tabVars, optVars, pinVars>>

\* The fetch for the observed key succeeds
PagerResponse ==
    /\ scope = "pager"
    /\ ~PagerHasData
    /\ pg' = [pg EXCEPT !.has = TRUE]
    /\ lastEv' = [ev |-> "response"]
    /\ UNCHANGED <<listVars, mutVars, scope, viewVars, filterVars, dialogVars,
                   tabVars, optVars, pinVars>>

PagerNext ==
    \/ PagerPrevious \/ PagerNextPage \/ PagerSearch \/ PagerDebounce
    \/ PagerFilter \/ PagerResponse

PagerSpec == InitPager /\ [][PagerNext]_vars

-----------------------------------------------------------------------------
(* The inline pincode cell of a row of the Locations Villages table.  The  *)
(* row keeps its key (item.id) across refetches, so the cell stays mounted *)
(* and keeps its local state.                                              *)

PinTexts == {"", "500001", "500002"}

\* village.pincode || ""
OrEmpty(x) == IF Truthy(x) THEN x ELSE ""

\* const [value, setValue] = React.useState(village.pincode || "")
PinMount(pincode) ==
    [mounted |-> TRUE, value |-> OrEmpty(pincode), focused |-> FALSE, saving |-> FALSE,
     item |-> pincode, server |-> pincode, reqs |-> {}, refetch |-> FALSE]
\* A render of the mounted cell: the local value is state, not derived
PinRender(c) == c

InitPin ==
    /\ scope = "pin"
    /\ page = "LocVillages"
    /\ filters = NoFilters
    /\ qs = AllSuccess(page, NoFilters)
    /\ newFetches = {}
    /\ kind = "none" /\ mode = "none" /\ open = FALSE /\ editing = NoRow
    /\ form = FormMount("none", EmptyValues) /\ saving = FALSE
    /\ cache = <<>> /\ epoch = 0
    /\ isAdmin = TRUE /\ deactivateTarget = NoRow /\ deleteTarget = NoRow
    /\ bulkOpen = FALSE /\ inflight = {} /\ toasts = {}
    /\ NoSearch
    /\ urlTab = <<Null>>
    /\ oc = [k \in OptKeys |-> NoOption]
    /\ pg = NoPager
    /\ \E pincode \in {Null, "500001"} : pin = PinMount(pincode)
    /\ lastEv = [ev |-> "mount"]

\* The user puts the cursor into the cell's input
PinFocus ==
    /\ scope = "pin" /\ ~pin.focused
    /\ pin' = [pin EXCEPT !.focused = TRUE]
    /\ toasts' = {}
    /\ lastEv' = [ev |-> "focus"]
    /\ UNCHANGED <<listVars, isAdmin, deactivateTarget, deleteTarget, bulkOpen, inflight,
                   scope, viewVars, filterVars, dialogVars, tabVars, optVars, pagerVars>>

\* onChange: setValue(e.target.value)
PinType ==
    /\ scope = "pin" /\ pin.focused
    /\ \E t \in PinTexts \ {pin.value} : pin' = [pin EXCEPT !.value = t]
    /\ lastEv' = [ev |-> "type"]
    /\ UNCHANGED <<listVars, mutVars, scope, viewVars, filterVars, dialogVars,
                   tabVars, optVars, pagerVars>>

\* onBlur: handleBlur saves when the value differs from the village's
PinBlur ==
    /\ scope = "pin" /\ pin.focused
    /\ pin' = IF pin.value # OrEmpty(pin.item)
              THEN [pin EXCEPT !.focused = FALSE, !.saving = TRUE,
                               !.reqs = @ \cup {pin.value}]
              ELSE [pin EXCEPT !.focused = FALSE]
    /\ lastEv' = [ev |-> "blur"]
    /\ UNCHANGED <<listVars, mutVars, scope, viewVars, filterVars, dialogVars,
                   tabVars, optVars, pagerVars>>

\* updatePincodeMutation succeeds: onSuccess invalidates the list, then
\* handleBlur's finally runs setSaving(false)
PinSaved ==
    /\ scope = "pin"
    /\ \E r \in pin.reqs :
         pin' = PinRender([pin EXCEPT !.reqs = @ \ {r}, !.server = r, !.saving = FALSE,
                                      !.refetch = TRUE])
    /\ lastEv' = [ev |-> "saved"]
    /\ UNCHANGED <<listVars, mutVars, scope, viewVars, filterVars, dialogVars,
                   tabVars, optVars, pagerVars>>

\* updatePincodeMutation fails: onError shows the toast, then setSaving(false)
PinSaveFailed ==
    /\ scope = "pin"
    /\ \E r \in pin.reqs :
         pin' = PinRender([pin EXCEPT !.reqs = @ \ {r}, !.saving = FALSE])
    /\ toasts' = {"Failed to update pincode."}
    /\ lastEv' = [ev |-> "saveFailed"]
    /\ UNCHANGED <<listVars, isAdmin, deactivateTarget, deleteTarget, bulkOpen, inflight,
                   scope, viewVars, filterVars, dialogVars, tabVars, optVars, pagerVars>>

\* The village's pincode is saved through the edit dialog:
\* updateMutation.onSuccess invalidates the list
PinDialogSaved ==
    /\ scope = "pin" /\ ~pin.focused
    /\ \E t \in PinTexts \ {OrEmpty(pin.server)} :
         pin' = PinRender([pin EXCEPT !.server = t, !.refetch = TRUE])
    /\ lastEv' = [ev |-> "dialogSaved"]
    /\ UNCHANGED <<listVars, mutVars, scope, viewVars, filterVars, dialogVars,
                   tabVars, optVars, pagerVars>>

\* The refetch of the list answers: the row is rendered with the new item
PinRefetched ==
    /\ scope = "pin" /\ pin.refetch
    /\ pin' = PinRender([pin EXCEPT !.item = pin.server, !.refetch = FALSE])
    /\ lastEv' = [ev |-> "refetched"]
    /\ UNCHANGED <<listVars, mutVars, scope, viewVars, filterVars, dialogVars,
                   tabVars, optVars, pagerVars>>

PinNext ==
    \/ PinFocus \/ PinType \/ PinBlur \/ PinSaved \/ PinSaveFailed
    \/ PinDialogSaved \/ PinRefetched

PinSpec == InitPin /\ [][PinNext]_vars

-----------------------------------------------------------------------------
Init == InitFilter \/ InitDialog

Next ==
    \/ FilterChange
    \/ QueryResponse
    \/ DialogOpen
    \/ DialogClose
    \/ DialogPick
    \/ DialogEdit
    \/ DialogSubmit
    \/ MutationSettled
    \/ PageRerender
    \/ DialogQueryResponse

Spec == Init /\ [][Next]_vars

-----------------------------------------------------------------------------
(* Properties.                                                             *)

\* C1: on every list page, right after the user changed the filter of a
\* level, every filter level below it in the page's chain is empty.
C1_LowerFiltersCleared ==
    (scope = "filter" /\ lastEv.ev = "filterChange")
        => \A b \in Below(page, lastEv.level) : filters[b] = ""

\* A District was picked on the IKP Centers page while a Mandal or Village
\* filter was set.
C1_Witness ==
    /\ scope = "filter" /\ page = "IkpCenters"
    /\ lastEv.ev = "filterChange" /\ lastEv.level = "districtId"
    /\ lastEv.hadBelow
    /\ filters.districtId # ""

\* C2: in a form chain, once the dialog has settled after the user changed
\* the selection of a level, every id field below that level is empty.
C2_LowerFieldsCleared ==
    (scope = "dialog" /\ lastEv.ev = "pick" /\ lastEv.changed)
        => \A b \in FieldsBelow(kind, lastEv.level) : form.values[b] = ""

\* The State of the server-filtered IKP center dialog was changed to another
\* state while a District was selected.
C2_Witness ==
    /\ scope = "dialog" /\ kind = "IkpCenterSrv"
    /\ lastEv.ev = "pick" /\ lastEv.level = "stateId"
    /\ lastEv.changed /\ lastEv.hadBelow
    /\ form.values.stateId # ""

\* The preloaded collection behind the selector of a level
Preloaded(p, lvl, f, s) == QueryItems(p, QueryOf(lvl), f, s)
\* The members of a set of rows whose parent is the selection (none if empty)
ChildrenOf(lvl, parentSel, rows) ==
    {x \in rows : parentSel # "" /\ ParentOf(lvl, x) = parentSel}

\* C3 as the dialogs have it: in every dialog fed by preloaded collections,
\* the options of a child level are exactly the preloaded rows whose parent
\* is the selected parent, and none when no parent is selected.
C3_DialogOptions ==
    (scope = "dialog" /\ kind \in ClientKinds) =>
        \A lvl \in Levels \ {"stateId"} :
            HasField(kind, lvl) =>
                DialogOptions(kind, lvl, form.values, filters, qs)
                    = ChildrenOf(lvl, form.values[ParentLevel(lvl)],
                                 Preloaded(QueryHost(kind), lvl, filters, qs))

\* C3 as stated: the same for the filter bars of the Locations pages.
C3_AsStated ==
    /\ C3_DialogOptions
    /\ (scope = "filter" /\ page \in LocPages) =>
         \A lvl \in Below(page, "stateId") :
             FilterOptions(page, lvl, filters, qs)
                 = ChildrenOf(lvl, filters[ParentLevel(lvl)],
                              Preloaded(page, lvl, filters, qs))

\* C3 (amended): the dialogs offer exactly the children of the selected
\* parent (none without a parent); the filter bars of the Locations pages
\* offer the children of the selected parent filter, and the whole preloaded
\* collection when the parent filter is empty.
C3_Options ==
    /\ C3_DialogOptions
    /\ (scope = "filter" /\ page \in LocPages) =>
         \A lvl \in Below(page, "stateId") :
             FilterOptions(page, lvl, filters, qs)
                 = IF filters[ParentLevel(lvl)] = ""
                   THEN Preloaded(page, lvl, filters, qs)
                   ELSE ChildrenOf(lvl, filters[ParentLevel(lvl)],
                                   Preloaded(page, lvl, filters, qs))

\* The Locations village dialog offers the two districts of the picked state.
C3_Witness ==
    /\ scope = "dialog" /\ kind = "LocVillage" /\ open
    /\ form.values.stateId = "s1"
    /\ DialogOptions(kind, "districtId", form.values, filters, qs) = {"d1", "d2"}

\* No child option query of host p is enabled, and none was just fetched,
\* while the parent selection in sel is empty
FetchGated(p, sel) ==
    \A qn \in QNames \ {"states"} :
        (QueryEnabled(p, qn, sel, qs) \/ \E x \in newFetches : x[1] = qn)
            => sel[ParentLevel(LevelOf(qn))] # ""

DialogChainGated ==
    \A lvl \in Levels \ {"stateId"} :
        (HasField(kind, lvl) /\ HasField(kind, ParentLevel(lvl))
         /\ ~Truthy(form.values[ParentLevel(lvl)]))
            => DialogDisabled(kind, mode, lvl, form.values, filters, qs)
FilterChainGated ==
    \A lvl \in Below(page, "stateId") :
        filters[ParentLevel(lvl)] = "" => FilterDisabled(page, lvl, filters)

\* C5 as stated: in every filter bar and every form chain, the selector of a
\* level is disabled while the level above it is empty.
C5_AsStated ==
    /\ scope = "filter" => FilterChainGated
    /\ (scope = "dialog" /\ open) => DialogChainGated

\* C5 (amended): the same, except for the District filter of the IKP
\* Mandals page, which is never disabled.
C5_ChildDisabled ==
    /\ (scope = "filter" /\ page # "IkpMandals") => FilterChainGated
    /\ (scope = "dialog" /\ open) => DialogChainGated

\* The State filter of the IKP Centers page was just cleared.
C5_Witness ==
    /\ scope = "filter" /\ page = "IkpCenters"
    /\ lastEv.ev = "filterChange" /\ lastEv.level = "stateId" /\ lastEv.hadBelow
    /\ filters.stateId = ""
    /\ FilterDisabled(page, "districtId", filters)

\* C6 as stated: in every entity dialog, Save is enabled only while no save
\* is in flight and the form values satisfy the dialog's schema.
C6_AsStated ==
    (scope = "dialog" /\ open /\ kind \in FormKinds
     /\ ~SaveDisabled(kind, mode, form, saving, filters))
        => (~saving /\ Valid(kind, form.values))

\* The values the edit dialog was loaded with
Snapshot == InitialValues(kind, mode, editing, filters, qs)

\* C7: in the IKP District / Mandal / Village edit dialogs, Save is disabled
\* whenever every field equals the loaded snapshot, and it is enabled only
\* while the name or the active flag differs from the snapshot.
C7_SaveNeedsChange ==
    (scope = "dialog" /\ open /\ kind \in CappedKinds /\ mode = "edit") =>
        /\ form.values = Snapshot => SaveDisabled(kind, mode, form, saving, filters)
        /\ ~SaveDisabled(kind, mode, form, saving, filters)
             => (form.values.name # Snapshot.name
                 \/ form.values.isActive # Snapshot.isActive)

\* Save is enabled in an IKP Mandal edit dialog whose name was changed.
C7_Witness ==
    /\ scope = "dialog" /\ open /\ kind = "IkpMandal" /\ mode = "edit"
    /\ ~SaveDisabled(kind, mode, form, saving, filters)
    /\ form.values.name # Snapshot.name
    /\ form.values.isActive = Snapshot.isActive

\* An edit session of dialog kind k cannot re-parent its row: every ancestor
\* selector is disabled, and an update request carries, for each ancestor
\* level, nothing or the row's original id
NoReparent(k) ==
    (scope = "dialog" /\ open /\ mode = "edit" /\ kind = k) =>
        /\ \A lvl \in Levels :
             HasField(k, lvl)
                 => DialogDisabled(k, mode, lvl, form.values, filters, qs)
        /\ lastEv.ev = "submit"
             => \A lvl \in Levels : lastEv.request[lvl] \in {Undefined, editing[lvl]}

C9_AsStated ==
    (scope = "dialog" /\ kind = "IkpCenterSrv" /\ mode = "edit" /\ lastEv.ev = "open")
        => form.values = Snapshot

\* Claim C10 as stated: on every list page, once a create request has
\* succeeded the create dialog is closed and every list query of the entity
\* is invalidated, and the list data displayed next comes from a fetch issued
\* after that success.
C10_AsStated ==
    scope = "page" =>
        /\ lastEv.ev = "created" =>
              /\ ~open
              /\ \A k \in DOMAIN cache : cache[k].invalid
        /\ lastEv.first =>
              \A t \in Displayed(cache, ListQueryKey(page, filters)) : t >= epoch

\* Claim C11: on every list page, the step in which an update request fails
\* with an Error of message m leaves the edit target as it was (a dialog open
\* on a row stays open on that row), leaves every list query untouched (no
\* invalidation, no fetch) and shows one error toast whose text is exactly m.
C11_UpdateFailure ==
    [][(lastEv'.ev = "failed" /\ lastEv'.req.op = "update" /\ lastEv'.err.isError) =>
          /\ editing' = editing
          /\ cache' = cache
          /\ toasts' = {[type |-> "error", text |-> lastEv'.err.message]}]_vars

C11_Witness ==
    /\ scope = "mut" /\ lastEv.ev = "failed" /\ lastEv.req.op = "update"
    /\ lastEv.err.isError /\ lastEv.err.message = "Name already exists"
    /\ editing.id = lastEv.req.id
    /\ toasts = {[type |-> "error", text |-> "Name already exists"]}
    /\ \A k \in DOMAIN cache : ~cache[k].invalid

\* The text of the error toast of the last step
ToastText == (CHOOSE t \in toasts : TRUE).text
ErrorToastShown ==
    Cardinality(toasts) = 1 /\ \A t \in toasts : t.type = "error"

\* Claim C12 as stated: a failure of any mutation of any page shows an error
\* toast whose text is the error's message when the failure is an Error, and
\* otherwise a fallback that names the failed action (so it differs from the
\* fallback of every other action of the page).
C12_AsStated ==
    (scope = "mut" /\ lastEv.ev = "failed") =>
        /\ ErrorToastShown
        /\ IF lastEv.err.isError
           THEN ToastText = lastEv.err.message
           ELSE \A op \in Ops(page) \ {lastEv.req.op} :
                    ToastText # ErrorText(page, op, lastEv.err)

\* Claim C12, corrected: a failure of any mutation shows exactly one error
\* toast.  The inline pincode update always shows "Failed to update
\* pincode.".  Every other mutation shows the error's message when the
\* failure is an Error; otherwise an IKP page shows a fallback of its own for
\* each action, and a Locations page shows "Failed." for every action.
C12_ErrorToast ==
    (scope = "mut" /\ lastEv.ev = "failed") =>
        /\ ErrorToastShown
        /\ CASE lastEv.req.op = "pincode" -> ToastText = "Failed to update pincode."
             [] lastEv.req.op # "pincode" /\ lastEv.err.isError ->
                  ToastText = lastEv.err.message
             [] lastEv.req.op # "pincode" /\ ~lastEv.err.isError /\ page \in LocPages ->
                  ToastText = "Failed."
             [] OTHER ->
                  /\ ToastText \notin {"Failed.", "Failed to update pincode."}
                  /\ \A op \in Ops(page) \ {lastEv.req.op} :
                        ToastText # ErrorText(page, op, lastEv.err)

C12_Witness ==
    /\ scope = "mut" /\ lastEv.ev = "failed" /\ ~lastEv.err.isError
    /\ page = "IkpMandals" /\ lastEv.req.op = "deactivate"
    /\ toasts = {[type |-> "error", text |-> "Failed to deactivate mandal."]}

\* The confirmation target of a deactivate or delete request
TargetOf(op) == IF op = "deactivate" THEN deactivateTarget ELSE deleteTarget

\* Claim C13 as stated: on every list page, after a deactivate or delete
\* request has failed the confirmation dialog of that action is closed (its
\* target is cleared) and no list query is marked invalidated unless some
\* mutation has succeeded.
C13_AsStated ==
    (scope = "mut" /\ lastEv.ev = "failed" /\ lastEv.req.op \in {"deactivate", "delete"}) =>
        /\ TargetOf(lastEv.req.op).id = Null
        /\ \A k \in DOMAIN cache : ~cache[k].invalid \/ epoch > 0

\* Claim C13, corrected: the step in which a deactivate or delete request
\* fails applies no change and touches no dialog: the confirmation targets
\* stay as they were (a confirmation still open stays open on its row), no
\* list query is invalidated or fetched and the rows are displayed as before.
C13_FailureChangesNothing ==
    [][(lastEv'.ev = "failed" /\ lastEv'.req.op \in {"deactivate", "delete"}) =>
          /\ deactivateTarget' = deactivateTarget
          /\ deleteTarget' = deleteTarget
          /\ cache' = cache
          /\ Items' = Items]_vars

C13_Witness ==
    /\ scope = "mut" /\ lastEv.ev = "failed" /\ lastEv.req.op = "deactivate"
    /\ page = "IkpMandals"
    /\ deactivateTarget.id = lastEv.req.id
    /\ Items # {}
    /\ \A k \in DOMAIN cache : ~cache[k].invalid

\* Claim C14: no mutation writes list data.  In every step, the data of a
\* list query changes only in a list fetch response, a list query becomes
\* invalidated only in the success handler of a mutation, and the step of a
\* failed mutation leaves every list query as it was (no invalidation, no
\* fetch).
C14_ListDataOnlyFromFetch ==
    [][/\ \A k \in DOMAIN cache :
            /\ cache'[k].data # cache[k].data => lastEv'.ev = "listResponse"
            /\ (cache'[k].invalid /\ ~cache[k].invalid) =>
                  lastEv'.ev \in {"created", "succeeded"}
       /\ lastEv'.ev = "failed" => cache' = cache]_vars

C14_Witness ==
    /\ scope = "mut" /\ lastEv.ev = "failed" /\ lastEv.req.op = "delete"
    /\ Items # {}
    /\ \A k \in DOMAIN cache : ~cache[k].invalid /\ cache[k].fetch = {}

\* Claim C15: on every list page a deactivate request carries the id of the
\* row held by the confirmation, one request per click; the confirmation's
\* row is set only by the Deactivate action of a displayed row, which is
\* available only for a row displayed as active, and otherwise only cleared.
C15_DeactivateTargetsRow ==
    [][/\ (lastEv'.ev = "submit" /\ lastEv'.req.op = "deactivate") =>
            /\ deactivateTarget.id # Null
            /\ lastEv'.req.id = deactivateTarget.id
            /\ inflight' \ inflight \subseteq {[op |-> "deactivate", id |-> deactivateTarget.id]}
       /\ deactivateTarget' # deactivateTarget =>
            \/ deactivateTarget' = NoRow
            \/ /\ lastEv'.ev = "rowDeactivate"
               /\ deactivateTarget' \in Items
               /\ deactivateTarget'.isActive]_vars

C15_Witness ==
    /\ scope = "mut" /\ lastEv.ev = "submit" /\ lastEv.req.op = "deactivate"
    /\ lastEv.req.id = "r3"
    /\ \E r \in Items : ~r.isActive
    /\ inflight = {[op |-> "deactivate", id |-> "r3"]}

\* Claim C18: on the Locations pages, while the user's role is not ADMIN no
\* create, bulk-upload, update, pincode, deactivate or delete request is ever
\* in flight, and no dialog that could issue one is open.
C18_NonAdminIssuesNothing ==
    (scope = "mut" /\ page \in LocPages /\ ~isAdmin) =>
        /\ inflight = {} /\ ~saving
        /\ ~Modal

C18_Witness ==
    /\ scope = "mut" /\ page \in LocPages /\ ~isAdmin
    /\ Items # {}
    /\ inflight = {} /\ ~saving

BulkKinds == Kinds \ FormKinds
BulkParent(k) == IF k = "BulkMandals" THEN "districtId" ELSE "mandalId"

\* Claim C16: in both bulk-upload dialogs, every step that issues a
\* bulk-upload request starts in a state where the dialog's parent id is a
\* non-empty string, the text has a character that is not white space, and
\* no bulk upload is pending.
C16_UploadGuard ==
    [][(lastEv'.ev = "submit" /\ kind \in BulkKinds) =>
          /\ form.values[BulkParent(kind)] \notin {"", Null, Undefined}
          /\ form.values.items \notin {"", Blank}
          /\ ~saving]_vars

C16_Witness ==
    /\ scope = "dialog" /\ kind = "BulkVillages" /\ lastEv.ev = "submit"
    /\ lastEv.request.mandalId = "m1" /\ lastEv.request.items = "x"
    /\ saving

\* Claim C17: every bulk-upload request carries as parent id the District
\* (Mandal) selected in the dialog when Upload is clicked, as items the text
\* of the text area unchanged, and nothing else.
C17_UploadVerbatim ==
    [][(lastEv'.ev = "submit" /\ kind \in BulkKinds) =>
          lastEv'.request =
            [NoRequest EXCEPT ![BulkParent(kind)] = form.values[BulkParent(kind)],
                              !.items = form.values.items]]_vars

C17_Witness ==
    /\ scope = "dialog" /\ kind = "BulkMandals" /\ lastEv.ev = "submit"
    /\ lastEv.request.districtId = "d1" /\ lastEv.request.items = Padded

\* Claim C19, as stated: whenever a list page renders its table and the body
\* is the "no results" row, the list query on screen has succeeded with zero
\* items, no query the table waits for is loading and no error message is
\* rendered.  (The body is one of loading row, "no results" row and data
\* rows by the shape of the conditional.)
C19_AsStated ==
    (scope = "view" /\ TableShown(page, filters)
         /\ TableBody(page, qs, ListStatus) = "empty") =>
        /\ ListStatus = "empty"
        /\ ~ErrorMessage(page, qs, ListStatus)

\* Claim C20, as stated: on every list page a keystroke in the search box
\* leaves the search parameter of the list query as it was.
C20_AsStated ==
    [][search' # search =>
          SearchParam(page, search', debouncedSearch')
            = SearchParam(page, search, debouncedSearch)]_vars

C22_NormalizeTab ==
    scope = "tab" =>
        /\ Tab \in allowedTabs
        /\ normalizeTab(Tab) = Tab
        /\ \A t \in allowedTabs, l \in Pads, r \in Pads :
              urlTab \in {l \o t \o r, l \o ToUpperCase(t) \o r, l \o Capitalised(t) \o r}
                 => Tab = t
        /\ (urlTab = NoTab \/ \A t \in allowedTabs :
                                urlTab \notin {l \o c \o r : l \in Pads, r \in Pads,
                                                c \in {t, ToUpperCase(t), Capitalised(t)}})
              => Tab = TabStates
        /\ lastEv.ev = "tabChange" => urlTab \in allowedTabs

C22_Witness ==
    /\ scope = "tab"
    /\ urlTab = <<" ", "M", "A", "N", "D", "A", "L", "S", "\t", " ">>
    /\ Tab = TabMandals

\* Claim C23, as stated: the success of an update, deactivate or delete
\* request for a row leaves alone a dialog that is open on another row: the
\* edit target, the deactivate target and the delete target keep their value
\* when it is a row other than the one the request was issued for.
C23_AsStated ==
    [][lastEv'.ev = "succeeded" =>
          /\ (lastEv'.req.op = "update" /\ editing.id \notin {Null, lastEv'.req.id})
                => editing' = editing
          /\ (lastEv'.req.op = "deactivate"
                 /\ deactivateTarget.id \notin {Null, lastEv'.req.id})
                => deactivateTarget' = deactivateTarget
          /\ (lastEv'.req.op = "delete" /\ deleteTarget.id \notin {Null, lastEv'.req.id})
                => deleteTarget' = deleteTarget]_vars

\* Claim C24, as stated: while a create or edit dialog is open, the page
\* re-renders that follow a click on Save (the mutation turns pending) and
\* the failure of the save leave the values of the form as they were.
C24_AsStated ==
    [][(scope = "dialog" /\ kind \in FormKinds /\ open
          /\ lastEv'.ev \in {"submit", "failed"}) =>
          form'.values = form.values]_vars

\* Claim C25, as stated: in every state of the Locations Mandal dialog, the
\* Locations Village dialog and the client-side IKP center dialog, a
\* non-empty District of the form is a district of the form's State and a
\* non-empty Mandal is a mandal of the form's District.
C25_AsStated ==
    (scope = "dialog" /\ open /\ kind \in {"LocMandal", "LocVillage", "IkpCenterCli"}) =>
        /\ Truthy(form.values.districtId) =>
              form.values.stateId = stateOf[form.values.districtId]
        /\ Truthy(form.values.mandalId) =>
              form.values.districtId = districtOf[form.values.mandalId]

\* Claim C26: on the server-filtered IKP pages and in the server-filtered
\* IKP center dialog, in every state the options shown for District, Mandal
\* and Village were fetched for the parent selected now: they come from a
\* fetch whose parent parameter is the one the current selection gives, and
\* each of them is a child of the selected parent when one is selected.
C26_OptionsOfCurrentParent ==
    scope = "opt" =>
        \A qn \in {"districts", "mandals", "villages"} :
            LET shown == OptItems(oc, page, filters, qn)
                parent == filters[ParentLevel(LevelOf(qn))]
            IN shown # {} =>
                 /\ oc[<<qn, QueryKey(page, qn, filters)>>].param = QueryParam(page, qn, filters)
                 /\ Truthy(parent) => \A x \in shown : ParentOf(LevelOf(qn), x) = parent

C26_Witness ==
    /\ scope = "opt" /\ page = "IkpCenters"
    /\ lastEv.ev = "response" /\ lastEv.late
    /\ filters.stateId = "s2"
    /\ oc[<<"districts", "s1">>].has
    /\ OptItems(oc, page, filters, "districts") = {"d3"}

\* Claim C27 as stated: on every list page, once the list query for the
\* current filters has succeeded, every row of the table belongs to every
\* non-empty selected ancestor filter.
C27_AsStated ==
    OnPage =>
        \A r \in Items : \A lvl \in Levels : filters[lvl] # "" => r[lvl] = filters[lvl]

\* Claim C28 as stated: on the Locations Mandals and Villages pages, whenever
\* the list query holds a response for what the page asks, the page number p
\* satisfies 1 <= p <= max(1, totalPages) with totalPages the ceiling of
\* that response's total over the page size.
C28_AsStated ==
    (scope = "pager" /\ PagerHasData) =>
        (1 <= pg.no /\ pg.no <= Max(1, TotalPages))

\* Claim C29 as stated: in the Locations Villages table, whenever a row's
\* pincode cell is not being edited and no pincode save and no refetch is in
\* flight, the cell shows the village's pincode of the most recently
\* fetched list data.
C29_AsStated ==
    (scope = "pin" /\ pin.mounted /\ ~pin.focused /\ pin.reqs = {} /\ ~pin.refetch) =>
        pin.value = OrEmpty(pin.item)

\* Claim C30: in both bulk-upload dialogs, every step that leaves the dialog
\* closed (Cancel or a successful upload) leaves State, District, Mandal and
\* the text empty, every opening starts with them empty, and a failed upload
\* leaves an open dialog open with selections and text unchanged.
C30_BulkReset ==
    [][(scope = "dialog" /\ kind \in BulkKinds) =>
          /\ (~open' \/ lastEv'.ev = "open") => form'.values = EmptyValues
          /\ (lastEv'.ev = "failed" /\ open) => (open' /\ form'.values = form.values)]_vars

C30_Witness ==
    /\ scope = "dialog" /\ kind = "BulkMandals"
    /\ lastEv.ev = "saved" /\ ~open
    /\ form.values = EmptyValues

====
